---- MODULE Spec2Model ----
(***************************************************************************)
(* Nutrition profile calculator of the Ingrelens backend                   *)
(* (backend/app/services/nutrition_service.py) and the HTTP handlers that  *)
(* call it (backend/app/api/routes_auth.py, routes_nutrition.py).          *)
(*                                                                         *)
(* The calculator works on Python floats, i.e. IEEE-754 binary64 values    *)
(* with round-to-nearest-even.  A binary64 value is modelled bit-exactly   *)
(* as a record [s, m, e] standing for s * m * 2^e, with the 53-bit         *)
(* significand m held as a little-endian sequence of 14-bit limbs.         *)
(* A value produced by round(x, 1) is held as its number of tenths n,      *)
(* standing for the binary64 value nearest to n/10.                        *)
(***************************************************************************)
EXTENDS Integers, Sequences, FiniteSets, TLC

VARIABLES
    users,         \* the users table: email -> User row
    req,           \* the request being answered: its operation and its caller
    resp,          \* the response to it: status and body
    calls,         \* the calculator functions the handler called, in order
    everComplete,  \* history: the emails whose row once held all four required inputs
    steps,         \* history: the number of requests handled
    sessions       \* the requests in progress at the same time, each with its own
                   \* database Session (used where requests overlap, else empty)

vars == <<users, req, resp, calls, everComplete, steps, sessions>>

(***************************************************************************)
(* Natural numbers of arbitrary size: little-endian limbs in base 2^14,    *)
(* no leading (most significant) zero limb; zero is <<>>.                  *)
(***************************************************************************)
LimbBits == 14

Base == 2^LimbBits

RECURSIVE BigNorm(_)
BigNorm(a) ==
    IF a = <<>> THEN <<>>
    ELSE IF a[Len(a)] = 0 THEN BigNorm(SubSeq(a, 1, Len(a) - 1))
    ELSE a

Limb(a, i) == IF i >= 1 /\ i <= Len(a) THEN a[i] ELSE 0

RECURSIVE BigFromNat(_)
BigFromNat(n) == IF n = 0 THEN <<>> ELSE <<n % Base>> \o BigFromNat(n \div Base)

RECURSIVE BigToNat(_)
BigToNat(a) == IF a = <<>> THEN 0 ELSE a[1] + Base * BigToNat(Tail(a))

RECURSIVE BigAddRec(_, _, _, _)
BigAddRec(a, b, i, carry) ==
    IF i > Len(a) /\ i > Len(b)
    THEN (IF carry = 0 THEN <<>> ELSE <<carry>>)
    ELSE <<(Limb(a, i) + Limb(b, i) + carry) % Base>>
            \o BigAddRec(a, b, i + 1, (Limb(a, i) + Limb(b, i) + carry) \div Base)

BigAdd(a, b) == BigAddRec(a, b, 1, 0)

\* a - b for a >= b
RECURSIVE BigSubRec(_, _, _, _)
BigSubRec(a, b, i, borrow) ==
    IF i > Len(a) THEN <<>>
    ELSE <<(Limb(a, i) - Limb(b, i) - borrow + Base) % Base>>
            \o BigSubRec(a, b, i + 1, IF Limb(a, i) - Limb(b, i) - borrow < 0 THEN 1 ELSE 0)

BigSub(a, b) == BigNorm(BigSubRec(a, b, 1, 0))

\* -1, 0, 1 as a < b, a = b, a > b
RECURSIVE BigCmpRec(_, _, _)
BigCmpRec(a, b, i) ==
    IF i = 0 THEN 0
    ELSE IF a[i] < b[i] THEN -1
    ELSE IF a[i] > b[i] THEN 1
    ELSE BigCmpRec(a, b, i - 1)

BigCmp(a, b) ==
    IF Len(a) < Len(b) THEN -1
    ELSE IF Len(a) > Len(b) THEN 1
    ELSE BigCmpRec(a, b, Len(a))

\* a * k for 0 <= k < Base
RECURSIVE BigMulSmallRec(_, _, _, _)
BigMulSmallRec(a, k, i, carry) ==
    IF i > Len(a) THEN (IF carry = 0 THEN <<>> ELSE <<carry>>)
    ELSE <<(a[i] * k + carry) % Base>> \o BigMulSmallRec(a, k, i + 1, (a[i] * k + carry) \div Base)

BigMulSmall(a, k) == BigNorm(BigMulSmallRec(a, k, 1, 0))

\* column k (from 0) of the schoolbook product
RECURSIVE BigMulCol(_, _, _, _)
BigMulCol(a, b, k, i) ==
    IF i > Len(a) THEN 0
    ELSE a[i] * Limb(b, k - i + 2) + BigMulCol(a, b, k, i + 1)

\* limbs k.. of the product, t being column k plus the carry into it
RECURSIVE BigMulRec(_, _, _, _)
RECURSIVE BigMulStep(_, _, _, _)
BigMulStep(a, b, k, t) == <<t % Base>> \o BigMulRec(a, b, k + 1, t \div Base)

BigMulRec(a, b, k, carry) ==
    IF k > Len(a) + Len(b) - 2 THEN BigFromNat(carry)
    ELSE BigMulStep(a, b, k, BigMulCol(a, b, k, 1) + carry)

\* a * b; a zero low limb of either factor is a zero low limb of the product
RECURSIVE BigMul(_, _)
BigMul(a, b) ==
    IF a = <<>> \/ b = <<>> THEN <<>>
    ELSE IF a[1] = 0 THEN <<0>> \o BigMul(Tail(a), b)
    ELSE IF b[1] = 0 THEN <<0>> \o BigMul(a, Tail(b))
    ELSE BigNorm(BigMulRec(a, b, 0, 0))

\* <<quotient, remainder>> of a by k, for 0 < k < Base (long division from the top limb)
DivStep(rest, q) == <<Append(rest[1], q), rest[2]>>

RECURSIVE BigDivSmallRec(_, _, _, _)
BigDivSmallRec(a, k, i, rem) ==
    IF i = 0 THEN <<<<>>, rem>>
    ELSE DivStep(BigDivSmallRec(a, k, i - 1, (rem * Base + a[i]) % k), (rem * Base + a[i]) \div k)

NormQuot(qr) == <<BigNorm(qr[1]), qr[2]>>

BigDivSmall(a, k) == NormQuot(BigDivSmallRec(a, k, Len(a), 0))

\* number of bits of 0 <= x < Base
RECURSIVE BitLenLimb(_)
BitLenLimb(x) == IF x = 0 THEN 0 ELSE 1 + BitLenLimb(x \div 2)

BigBitLen(a) == IF a = <<>> THEN 0 ELSE (Len(a) - 1) * LimbBits + BitLenLimb(a[Len(a)])

RECURSIVE Zeros(_)
Zeros(n) == IF n = 0 THEN <<>> ELSE <<0>> \o Zeros(n - 1)

\* limbs i.. of a * 2^r for 0 <= r < LimbBits, where lo = 2^(LimbBits - r)
RECURSIVE ShlLimbs(_, _, _, _)
ShlLimbs(a, r, lo, i) ==
    IF i > Len(a) + 1 THEN <<>>
    ELSE <<(Limb(a, i) % lo) * 2^r + (Limb(a, i - 1) \div lo)>> \o ShlLimbs(a, r, lo, i + 1)

\* a * 2^n
BigShl(a, n) ==
    IF a = <<>> THEN <<>>
    ELSE Zeros(n \div LimbBits)
            \o BigNorm(ShlLimbs(a, n % LimbBits, 2^(LimbBits - (n % LimbBits)), 1))

\* limbs i.. of floor(a / 2^r) for 0 <= r < LimbBits, where hi = 2^r
RECURSIVE ShrLimbs(_, _, _, _)
ShrLimbs(a, r, hi, i) ==
    IF i > Len(a) THEN <<>>
    ELSE <<(a[i] \div hi) + (Limb(a, i + 1) % hi) * 2^(LimbBits - r)>> \o ShrLimbs(a, r, hi, i + 1)

\* floor(a / 2^n)
BigShr(a, n) ==
    IF n \div LimbBits >= Len(a) THEN <<>>
    ELSE BigNorm(ShrLimbs(SubSeq(a, n \div LimbBits + 1, Len(a)), n % LimbBits, 2^(n % LimbBits), 1))

(***************************************************************************)
(* Python float: IEEE-754 binary64 with round-to-nearest, ties-to-even.    *)
(* A nonzero value is [s |-> 1 or -1, m |-> significand, e |-> exponent]   *)
(* with 2^52 <= m < 2^53, standing for s * m * 2^e; zero is FZero.         *)
(* Exponent overflow, subnormals, infinities and NaN lie outside the       *)
(* magnitudes the model reaches and are not represented.                   *)
(***************************************************************************)
MantBits == 53

FZero == [s |-> 0, m |-> <<>>, e |-> 0]

IsOdd(a) == a # <<>> /\ a[1] % 2 = 1

\* whether a is a multiple of 2^k
RECURSIVE LowBitsZero(_, _)
LowBitsZero(a, k) ==
    IF a = <<>> \/ k = 0 THEN TRUE
    ELSE IF k >= LimbBits THEN a[1] = 0 /\ LowBitsZero(Tail(a), k - LimbBits)
    ELSE a[1] % 2^k = 0

\* q, or q + 1 when the guard bit is set and either bits were lost below it or q is odd
RoundQ(q, guard, low) == IF guard /\ (low \/ IsOdd(q)) THEN BigAdd(q, <<1>>) ELSE q

\* q1 is the value with its guard bit still attached
RoundGuard(q1, low) == RoundQ(BigShr(q1, 1), IsOdd(q1), low)

\* floor(n / 2^sh) rounded to nearest, ties to even; sticky says that the exact
\* value lies strictly above n (bits lost below n).
RoundShr(n, sh, sticky) ==
    IF sh = 0 THEN n
    ELSE RoundGuard(BigShr(n, sh - 1), sticky \/ ~LowBitsZero(n, sh - 1))

\* r is a rounded significand, of MantBits bits or (after a carry) of one more
PackRounded(s, r, e) ==
    IF BigBitLen(r) > MantBits
    THEN [s |-> s, m |-> BigShr(r, 1), e |-> e + 1]
    ELSE [s |-> s, m |-> r, e |-> e]

\* sh is the number of bits n has beyond MantBits
PackShift(s, n, e, sticky, sh) ==
    IF sh <= 0 THEN [s |-> s, m |-> BigShl(n, -sh), e |-> e + sh]
    ELSE PackRounded(s, RoundShr(n, sh, sticky), e + sh)

\* the binary64 value nearest to s * n * 2^e
Pack(s, n, e, sticky) ==
    IF n = <<>> \/ s = 0 THEN FZero
    ELSE PackShift(s, n, e, sticky, BigBitLen(n) - MantBits)

Abs(n) == IF n < 0 THEN -n ELSE n

Sign(n) == IF n < 0 THEN -1 ELSE IF n > 0 THEN 1 ELSE 0

\* float(n) for a Python int n
FInt(n) == Pack(Sign(n), BigFromNat(Abs(n)), 0, FALSE)

FNeg(x) == [x EXCEPT !.s = -x.s]

\* x * y
FMul(x, y) ==
    IF x.s = 0 \/ y.s = 0 THEN FZero
    ELSE Pack(x.s * y.s, BigMul(x.m, y.m), x.e + y.e, FALSE)

\* s * (a - lo.m) * 2^lo.e for opposite signs, c comparing a with lo.m
FAddOpposite(s, a, lo, c) ==
    IF c = 0 THEN FZero
    ELSE IF c > 0 THEN Pack(s, BigSub(a, lo.m), lo.e, FALSE)
    ELSE Pack(lo.s, BigSub(lo.m, a), lo.e, FALSE)

\* s * a * 2^lo.e + lo
FAddAligned(s, a, lo) ==
    IF s = lo.s THEN Pack(s, BigAdd(a, lo.m), lo.e, FALSE)
    ELSE FAddOpposite(s, a, lo, BigCmp(a, lo.m))

\* hi + lo for nonzero hi, lo with hi.e >= lo.e
FAddOrdered(hi, lo) ==
    IF hi.e - lo.e > MantBits + 11 THEN hi
    ELSE FAddAligned(hi.s, BigShl(hi.m, hi.e - lo.e), lo)

\* x + y
FAdd(x, y) ==
    IF x.s = 0 THEN y
    ELSE IF y.s = 0 THEN x
    ELSE IF x.e >= y.e THEN FAddOrdered(x, y)
    ELSE FAddOrdered(y, x)

\* x - y
FSub(x, y) == FAdd(x, FNeg(y))

\* the float nearest to s * (qr[1] + fraction) * 2^e, a nonzero remainder qr[2] marking a fraction
PackQuot(s, qr, e) == Pack(s, qr[1], e, qr[2] # 0)

\* x / k for a Python int 0 < k < 2^14
FDivInt(x, k) ==
    IF x.s = 0 THEN FZero
    ELSE PackQuot(x.s, BigDivSmall(BigShl(x.m, 2 * LimbBits), k), x.e - 2 * LimbBits)

\* the float literal num/den written in decimal, e.g. 1.55 as FLit(155, 100)
FLit(num, den) == FDivInt(FInt(num), den)

\* -1, 0, 1 as x < y, x = y, x > y
FCmp(x, y) ==
    IF x.s # y.s THEN (IF x.s < y.s THEN -1 ELSE 1)
    ELSE IF x.s = 0 THEN 0
    ELSE IF x.e # y.e THEN (IF x.e < y.e THEN -x.s ELSE x.s)
    ELSE x.s * BigCmp(x.m, y.m)

\* Python min(a, b) and max(a, b): the first argument unless the second is strictly better
FMin(a, b) == IF FCmp(b, a) < 0 THEN b ELSE a

FMax(a, b) == IF FCmp(b, a) > 0 THEN b ELSE a

\* n * 2^(-sh) rounded to the nearest integer, ties to even
Tenths(n, sh) ==
    IF sh <= 0 THEN BigToNat(BigShl(n, -sh))
    ELSE IF sh > BigBitLen(n) + 1 THEN 0
    ELSE BigToNat(RoundShr(n, sh, FALSE))

\* round(x, 1): x correctly rounded to one decimal place, ties to even, as the
\* number of tenths
Round1(x) == IF x.s = 0 THEN 0 ELSE x.s * Tenths(BigMulSmall(x.m, 10), -x.e)

(***************************************************************************)
(* Python values.  An Optional value is None or Some(v).  A str that the   *)
(* code passes through lower() (gender) is a sequence of characters; a str *)
(* that the code only compares or looks up (goal, activity_level) is a     *)
(* TLA+ string.                                                            *)
(***************************************************************************)
None == <<>>

Some(v) == <<v>>

UpperCase == <<"A", "B", "C", "D", "E", "F", "G", "H", "I", "J", "K", "L", "M",
               "N", "O", "P", "Q", "R", "S", "T", "U", "V", "W", "X", "Y", "Z">>

LowerCase == <<"a", "b", "c", "d", "e", "f", "g", "h", "i", "j", "k", "l", "m",
               "n", "o", "p", "q", "r", "s", "t", "u", "v", "w", "x", "y", "z">>

\* chr.lower() for one character
LowerChar(c) ==
    IF \E k \in 1..Len(UpperCase) : UpperCase[k] = c
    THEN LowerCase[CHOOSE k \in 1..Len(UpperCase) : UpperCase[k] = c]
    ELSE c

\* str.lower(), character by character
RECURSIVE Lower(_)
Lower(str) == IF str = <<>> THEN <<>> ELSE <<LowerChar(Head(str))>> \o Lower(Tail(str))

\* bool(v) for an Optional number: None and 0 are falsy
TruthyNum(v) == v # None /\ v[1] # 0

\* bool(v) for an Optional character sequence: None and the empty str are falsy
TruthySeq(v) == v # None /\ v[1] # <<>>

\* bool(v) for an Optional string: None and "" are falsy
TruthyStr(v) == v # None /\ v[1] # ""

(***************************************************************************)
(* NutritionCalculatorService                                              *)
(***************************************************************************)
ACTIVITY_MULTIPLIERS ==
    [sedentary   |-> FLit(12, 10),
     light       |-> FLit(1375, 1000),
     moderate    |-> FLit(155, 100),
     active      |-> FLit(1725, 1000),
     very_active |-> FLit(19, 10)]

\* dict.get(key, default)
DictGet(dict, key, default) == IF key \in DOMAIN dict THEN dict[key] ELSE default

\* the numeric literals of the calculator, as floats
Lit_10 == FInt(10)

Lit_6_25 == FLit(625, 100)

Lit_5 == FInt(5)

Lit_161 == FInt(161)

Lit_1_55 == FLit(155, 100)

Lit_500 == FInt(500)

Lit_300 == FInt(300)

\* base_bmr = 10 * weight_kg + 6.25 * height_cm - 5 * age
\* (weight_kg, height_cm: float; age: int)
base_bmr(weight_kg, height_cm, age) ==
    FSub(FAdd(FMul(Lit_10, weight_kg), FMul(Lit_6_25, height_cm)), FInt(5 * age))

\* variant: the gender is compared as written, without lower()
calculate_bmr_case_sensitive(weight_kg, height_cm, age, gender) ==
    IF gender = <<"m", "a", "l", "e">>
    THEN FAdd(base_bmr(weight_kg, height_cm, age), Lit_5)
    ELSE FSub(base_bmr(weight_kg, height_cm, age), Lit_161)

\* variant: the + 5 of the male branch is left out
calculate_bmr_no_male_offset(weight_kg, height_cm, age, gender) ==
    IF Lower(gender) = <<"m", "a", "l", "e">>
    THEN base_bmr(weight_kg, height_cm, age)
    ELSE FSub(base_bmr(weight_kg, height_cm, age), Lit_161)

calculate_bmr(weight_kg, height_cm, age, gender) ==
    IF Lower(gender) = <<"m", "a", "l", "e">>
    THEN FAdd(base_bmr(weight_kg, height_cm, age), Lit_5)
    ELSE FSub(base_bmr(weight_kg, height_cm, age), Lit_161)

\* variant: an activity level outside the table takes the sedentary multiplier
calculate_tdee_default_sedentary(bmr, activity_level) ==
    FMul(bmr, DictGet(ACTIVITY_MULTIPLIERS, activity_level, ACTIVITY_MULTIPLIERS.sedentary))

\* variant: the multiplier looked up for the request before is kept and used again
calculate_tdee_kept_lookup(bmr, activity_level) ==
    FMul(bmr, DictGet(ACTIVITY_MULTIPLIERS,
                      IF req.op = "calculate_nutrition_stats" THEN req.body.activity_level
                                                              ELSE activity_level,
                      Lit_1_55))

\* variant: a table key is found in any letter case
calculate_tdee_any_case(bmr, activity_level) ==
    FMul(bmr, DictGet(ACTIVITY_MULTIPLIERS,
                      IF activity_level = "Sedentary" THEN "sedentary"
                      ELSE IF activity_level = "VERY_ACTIVE" THEN "very_active"
                      ELSE activity_level,
                      Lit_1_55))

\* variant: the tdee is rounded to one decimal before it is returned
calculate_tdee_rounded(bmr, activity_level) ==
    FDivInt(FInt(Round1(FMul(bmr, DictGet(ACTIVITY_MULTIPLIERS, activity_level, Lit_1_55)))), 10)

calculate_tdee(bmr, activity_level) ==
    FMul(bmr, DictGet(ACTIVITY_MULTIPLIERS, activity_level, Lit_1_55))

\* variant: the surplus has a floor and no ceiling
surplus_floor_only(current_weight) == FMax(Lit_300, FMul(current_weight, Lit_5))

\* surplus = min(500, max(300, current_weight * 5))
surplus(current_weight) == FMin(Lit_500, FMax(Lit_300, FMul(current_weight, Lit_5)))

\* variant: the deficit has a floor and no ceiling
deficit_floor_only(current_weight) == FMax(Lit_300, FMul(current_weight, Lit_5))

\* deficit = min(500, max(300, current_weight * 5))
deficit(current_weight) == FMin(Lit_500, FMax(Lit_300, FMul(current_weight, Lit_5)))

\* variant: the surplus and the deficit are current_weight * 5, not clamped
calculate_target_calories_unclamped(tdee, goal, current_weight, target_weight) ==
    IF goal = "bulk" THEN FAdd(tdee, FMul(current_weight, Lit_5))
    ELSE IF goal = "cut" THEN FSub(tdee, FMul(current_weight, Lit_5))
    ELSE tdee

\* variant: the surplus and the deficit are taken from the target weight
calculate_target_calories_by_target(tdee, goal, current_weight, target_weight) ==
    IF goal = "bulk" THEN FAdd(tdee, surplus(target_weight))
    ELSE IF goal = "cut" THEN FSub(tdee, deficit(target_weight))
    ELSE tdee

calculate_target_calories(tdee, goal, current_weight, target_weight) ==
    IF goal = "bulk" THEN FAdd(tdee, surplus(current_weight))
    ELSE IF goal = "cut" THEN FSub(tdee, deficit(current_weight))
    ELSE tdee

\* protein_ratio, carbs_ratio, fats_ratio of each branch of calculate_macros
BulkRatios == [protein |-> FLit(30, 100), carbs |-> FLit(40, 100), fats |-> FLit(30, 100)]

CutRatios == [protein |-> FLit(35, 100), carbs |-> FLit(30, 100), fats |-> FLit(35, 100)]

MaintainRatios == [protein |-> FLit(25, 100), carbs |-> FLit(45, 100), fats |-> FLit(30, 100)]

\* variant: the carbs ratio of "cut" is 0.35 like its two neighbours
MacroRatios_cut_carbs(goal) ==
    IF goal = "bulk" THEN BulkRatios
    ELSE IF goal = "cut" THEN [CutRatios EXCEPT !.carbs = FLit(35, 100)]
    ELSE MaintainRatios

\* variant: the protein ratio of "bulk" is 0.35 like that of "cut"
MacroRatios_bulk_protein(goal) ==
    IF goal = "bulk" THEN [BulkRatios EXCEPT !.protein = FLit(35, 100)]
    ELSE IF goal = "cut" THEN CutRatios
    ELSE MaintainRatios

MacroRatios(goal) ==
    IF goal = "bulk" THEN BulkRatios
    ELSE IF goal = "cut" THEN CutRatios
    ELSE MaintainRatios

\* variant: the fats are converted at 4 kcal per gram like protein and carbs
MacroGrams_fats_by_4(target_calories, ratio) ==
    [protein_g |-> Round1(FDivInt(FMul(target_calories, ratio.protein), 4)),
     carbs_g   |-> Round1(FDivInt(FMul(target_calories, ratio.carbs), 4)),
     fats_g    |-> Round1(FDivInt(FMul(target_calories, ratio.fats), 4))]

\* the grams of each macro and the dict returned, its values numbers of tenths
MacroGrams(target_calories, ratio) ==
    [protein_g |-> Round1(FDivInt(FMul(target_calories, ratio.protein), 4)),
     carbs_g   |-> Round1(FDivInt(FMul(target_calories, ratio.carbs), 4)),
     fats_g    |-> Round1(FDivInt(FMul(target_calories, ratio.fats), 9))]

\* variant: every goal takes the ratios of "maintain"
calculate_macros_one_ratio(target_calories, goal) == MacroGrams(target_calories, MaintainRatios)

calculate_macros(target_calories, goal) == MacroGrams(target_calories, MacroRatios(goal))

(***************************************************************************)
(* The User row (backend/app/db/models.py).  current_weight_kg,            *)
(* target_weight_kg and height_cm hold whole numbers n standing for the    *)
(* float n.0; the six derived targets hold numbers of tenths.              *)
(***************************************************************************)
OrElseStr(v, default) == IF TruthyStr(v) THEN v[1] ELSE default

OrElseNum(v, default) == IF TruthyNum(v) THEN v[1] ELSE default

\* variant: a field counts as soon as it is not None, 0 and "" included
AllRequired_not_none(user) ==
    /\ user.current_weight_kg # None
    /\ user.height_cm # None
    /\ user.age # None
    /\ user.gender # None

\* all([user.current_weight_kg, user.height_cm, user.age, user.gender])
AllRequired(user) ==
    /\ TruthyNum(user.current_weight_kg)
    /\ TruthyNum(user.height_cm)
    /\ TruthyNum(user.age)
    /\ TruthySeq(user.gender)

\* The result of update_user_nutrition_profile: the user object as it leaves the
\* call, whether db.commit() ran, and the trace of the calls made, in order,
\* the service's own name first.
\* The assignments to user.bmr .. user.target_fats_g, db.commit() and db.refresh(user)
StoreProfile(user, bmr, tdee, target_calories, macros) ==
    [user |-> [user EXCEPT !.bmr = Some(Round1(bmr)),
                           !.tdee = Some(Round1(tdee)),
                           !.target_calories = Some(Round1(target_calories)),
                           !.target_protein_g = Some(macros.protein_g),
                           !.target_carbs_g = Some(macros.carbs_g),
                           !.target_fats_g = Some(macros.fats_g)],
     committed |-> TRUE,
     calls |-> <<"update_user_nutrition_profile", "calculate_bmr", "calculate_tdee",
                 "calculate_target_calories", "calculate_macros", "db.commit">>]

\* macros = calculate_macros(target_calories, user.goal or 'maintain')
ProfileMacros(user, bmr, tdee, target_calories) ==
    StoreProfile(user, bmr, tdee, target_calories,
                 calculate_macros(target_calories, OrElseStr(user.goal, "maintain")))

\* user.target_weight_kg or user.current_weight_kg
TargetWeightArg(user) == OrElseNum(user.target_weight_kg, user.current_weight_kg[1])

\* variant: the target weight is passed as the current weight too
ProfileTargetCalories_by_target(user, bmr, tdee) ==
    ProfileMacros(user, bmr, tdee,
                  calculate_target_calories(
                      tdee, OrElseStr(user.goal, "maintain"),
                      FInt(TargetWeightArg(user)),
                      FInt(TargetWeightArg(user))))

\* target_calories = calculate_target_calories(tdee, user.goal or 'maintain',
\*     user.current_weight_kg, user.target_weight_kg or user.current_weight_kg)
ProfileTargetCalories(user, bmr, tdee) ==
    ProfileMacros(user, bmr, tdee,
                  calculate_target_calories(
                      tdee, OrElseStr(user.goal, "maintain"),
                      FInt(user.current_weight_kg[1]),
                      FInt(TargetWeightArg(user))))

\* variant: the tdee is computed from the bmr as stored, rounded to one decimal
ProfileTdee_rounded_bmr(user, bmr) ==
    ProfileTargetCalories(user, bmr,
                          calculate_tdee(FDivInt(FInt(Round1(bmr)), 10),
                                         OrElseStr(user.activity_level, "moderate")))

\* variant: a missing activity level stands for 'sedentary'
ProfileTdee_default_sedentary(user, bmr) ==
    ProfileTargetCalories(user, bmr,
                          calculate_tdee(bmr, OrElseStr(user.activity_level, "sedentary")))

\* tdee = calculate_tdee(bmr, user.activity_level or 'moderate')
ProfileTdee(user, bmr) ==
    ProfileTargetCalories(user, bmr,
                          calculate_tdee(bmr, OrElseStr(user.activity_level, "moderate")))

\* variant: an incomplete user has its six targets cleared and committed
update_user_nutrition_profile_clearing(user) ==
    IF ~AllRequired(user)
    THEN [user |-> [user EXCEPT !.bmr = None, !.tdee = None, !.target_calories = None,
                                !.target_protein_g = None, !.target_carbs_g = None,
                                !.target_fats_g = None],
          committed |-> TRUE,
          calls |-> <<"update_user_nutrition_profile", "db.commit">>]
    ELSE ProfileTdee(user, calculate_bmr(FInt(user.current_weight_kg[1]), FInt(user.height_cm[1]),
                                         user.age[1], user.gender[1]))

update_user_nutrition_profile(user) ==
    IF ~AllRequired(user)
    THEN [user |-> user, committed |-> FALSE, calls |-> <<"update_user_nutrition_profile">>]
    ELSE ProfileTdee(user, calculate_bmr(FInt(user.current_weight_kg[1]), FInt(user.height_cm[1]),
                                         user.age[1], user.gender[1]))

(***************************************************************************)
(* Requests.  A field of a request body is Unset (left out) or Given(v),   *)
(* v being None (an explicit null) or Some(value).                         *)
(***************************************************************************)
Unset == <<>>

Given(v) == <<v>>

\* the attribute of a parsed body: the default for a field left out
Attr(arg, default) == IF arg = Unset THEN default ELSE arg[1]

Male == <<"m", "a", "l", "e">>

Female == <<"f", "e", "m", "a", "l", "e">>

\* create_user(db, user_data): the new row holds the registration fields and no targets
create_user(data) ==
    [gender            |-> Attr(data.gender, None),
     age               |-> Attr(data.age, None),
     height_cm         |-> Attr(data.height_cm, None),
     current_weight_kg |-> Attr(data.current_weight_kg, None),
     target_weight_kg  |-> Attr(data.target_weight_kg, None),
     goal              |-> Attr(data.goal, None),
     activity_level    |-> Attr(data.activity_level, Some("moderate")),
     bmr               |-> None,
     tdee              |-> None,
     target_calories   |-> None,
     target_protein_g  |-> None,
     target_carbs_g    |-> None,
     target_fats_g     |-> None]

\* for field, value in user_update.dict(exclude_unset=True).items(): setattr(...)
SetAttrs(user, upd) ==
    [user EXCEPT !.gender            = Attr(upd.gender, @),
                 !.age               = Attr(upd.age, @),
                 !.height_cm         = Attr(upd.height_cm, @),
                 !.current_weight_kg = Attr(upd.current_weight_kg, @),
                 !.target_weight_kg  = Attr(upd.target_weight_kg, @),
                 !.goal              = Attr(upd.goal, @),
                 !.activity_level    = Attr(upd.activity_level, @)]

\* variant: only a new weight triggers the nutrition service
AnyRequired_weight_only(upd) == TruthyNum(Attr(upd.current_weight_kg, None))

\* any([user_update.current_weight_kg, user_update.height_cm, user_update.age,
\*      user_update.gender])
AnyRequired(upd) ==
    \/ TruthyNum(Attr(upd.current_weight_kg, None))
    \/ TruthyNum(Attr(upd.height_cm, None))
    \/ TruthyNum(Attr(upd.age, None))
    \/ TruthySeq(Attr(upd.gender, None))

\* the handler did not call the nutrition service
NotCalled(user) == [user |-> user, committed |-> FALSE, calls |-> <<>>]

Targets(user) ==
    [bmr             |-> user.bmr,
     tdee            |-> user.tdee,
     target_calories |-> user.target_calories,
     target_macros   |-> [protein_g |-> user.target_protein_g,
                          carbs_g   |-> user.target_carbs_g,
                          fats_g    |-> user.target_fats_g]]

(***************************************************************************)
(* The requests the model sends.                                           *)
(***************************************************************************)
Emails == {"ann@x.io"}

NoFields ==
    [gender |-> Unset, age |-> Unset, height_cm |-> Unset, current_weight_kg |-> Unset,
     target_weight_kg |-> Unset, goal |-> Unset, activity_level |-> Unset]

\* weight 70, height 175, age 25, male: the end-to-end example of the specification
FourFields ==
    [NoFields EXCEPT !.gender = Given(Some(Male)), !.age = Given(Some(25)),
                     !.height_cm = Given(Some(175)), !.current_weight_kg = Given(Some(70))]

\* bodies of POST /register (UserCreate)
RegisterBodies ==
    { NoFields,
      FourFields,
      [FourFields EXCEPT !.goal = Given(Some("maintain")),
                         !.activity_level = Given(Some("moderate"))],
      [FourFields EXCEPT !.gender = Given(Some(<<"F", "e", "m", "a", "l", "e">>)),
                         !.goal = Given(Some("cut")),
                         !.activity_level = Given(Some("active")),
                         !.target_weight_kg = Given(Some(65))],
      [FourFields EXCEPT !.gender = Unset, !.age = Unset],
      [FourFields EXCEPT !.age = Given(Some(0)), !.activity_level = Given(None)] }

\* bodies of PUT /me (UserUpdate)
UpdateBodies ==
    { NoFields,
      FourFields,
      [NoFields EXCEPT !.current_weight_kg = Given(Some(82))],
      [NoFields EXCEPT !.current_weight_kg = Given(Some(0))],
      [NoFields EXCEPT !.current_weight_kg = Given(None)],
      [NoFields EXCEPT !.current_weight_kg = Given(Some(-70))],
      [NoFields EXCEPT !.age = Given(Some(30))],
      [NoFields EXCEPT !.height_cm = Given(Some(180))],
      [NoFields EXCEPT !.gender = Given(Some(<<"M", "A", "L", "E">>))],
      [NoFields EXCEPT !.gender = Given(Some(<<>>))],
      [NoFields EXCEPT !.goal = Given(Some("bulk"))],
      [NoFields EXCEPT !.activity_level = Given(Some("extreme"))],
      [NoFields EXCEPT !.target_weight_kg = Given(Some(65))],
      [NoFields EXCEPT !.goal = Given(Some("cut")), !.current_weight_kg = Given(Some(82))],
      [NoFields EXCEPT !.gender = Given(Some(Female)), !.age = Given(None)] }

\* query parameters of POST /calculate
ValidQuery ==
    [weight_kg |-> 70, height_cm |-> 175, age |-> 25, gender |-> Male,
     activity_level |-> "moderate", goal |-> "maintain"]

CalculateQueries ==
    { ValidQuery,
      [weight_kg |-> 55, height_cm |-> 160, age |-> 30, gender |-> <<"F", "e", "m", "a", "l", "e">>,
       activity_level |-> "active", goal |-> "cut"],
      [ValidQuery EXCEPT !.gender = <<"F", "e", "m", "a", "l", "e">>,
                         !.activity_level = "active", !.goal = "cut"],
      [weight_kg |-> 20, height_cm |-> 90, age |-> 80, gender |-> Female,
       activity_level |-> "sedentary", goal |-> "cut"],
      [ValidQuery EXCEPT !.weight_kg = 0, !.goal = "cut"],
      [ValidQuery EXCEPT !.gender = <<"o", "t", "h", "e", "r">>],
      [ValidQuery EXCEPT !.gender = <<>>],
      [ValidQuery EXCEPT !.activity_level = "extreme"],
      [ValidQuery EXCEPT !.activity_level = "Moderate", !.goal = "bulk"] }

\* the number of requests of a behaviour
MaxSteps == 3

(***************************************************************************)
(* The handlers                                                            *)
(***************************************************************************)
Init ==
    /\ users = <<>>
    /\ req = [op |-> "none", email |-> "", body |-> <<>>]
    /\ resp = [status |-> 0, body |-> <<>>]
    /\ calls = <<>>
    /\ everComplete = {}
    /\ steps = 0
    /\ sessions = <<>>

Registered == DOMAIN users

Step(op, email, body) ==
    /\ steps < MaxSteps
    /\ steps' = steps + 1
    /\ req' = [op |-> op, email |-> email, body |-> body]
    /\ UNCHANGED sessions

\* get_current_user: a token of no stored user is answered 401
Unauthorized(op, email) ==
    /\ email \notin Registered
    /\ Step(op, email, <<>>)
    /\ resp' = [status |-> 401, body |-> <<>>]
    /\ calls' = <<>>
    /\ UNCHANGED <<users, everComplete>>

\* history: the row holds a weight, a height, an age and a gender, none of them
\* null, zero or empty
HasAllFour(user) ==
    /\ user.current_weight_kg \notin {None, Some(0)}
    /\ user.height_cm \notin {None, Some(0)}
    /\ user.age \notin {None, Some(0)}
    /\ user.gender \notin {None, Some(<<>>)}

\* the history of complete rows, once users' is known
Remember == everComplete' = everComplete \cup {e \in DOMAIN users' : HasAllFour(users'[e])}

\* the new row is stored as the nutrition service left it (or as created)
StoreNewUser(email, r) ==
    /\ users' = (email :> r.user) @@ users
    /\ calls' = <<"create_user">> \o r.calls
    /\ resp' = [status |-> 200, body |-> [token_type |-> "bearer", sub |-> email]]
    /\ Remember

\* if all([...]): nutrition_service.update_user_nutrition_profile(db, user)
RegisterUser(email, user) ==
    StoreNewUser(email, IF AllRequired(user)
                        THEN update_user_nutrition_profile(user)
                        ELSE NotCalled(user))

\* POST /register
register(email, user_data) ==
    /\ Step("register", email, user_data)
    /\ IF email \in Registered
       THEN /\ resp' = [status |-> 400, body |-> <<>>]
            /\ calls' = <<>>
            /\ UNCHANGED <<users, everComplete>>
       ELSE RegisterUser(email, create_user(user_data))

\* db.commit(); db.refresh(current_user); return current_user
CommitUser(email, r) ==
    /\ users' = [users EXCEPT ![email] = r.user]
    /\ calls' = r.calls \o <<"db.commit">>
    /\ resp' = [status |-> 200, body |-> r.user]
    /\ Remember

\* if any([...]): nutrition_service.update_user_nutrition_profile(db, current_user)
UpdateUser(email, user_update, current_user) ==
    CommitUser(email, IF AnyRequired(user_update)
                      THEN update_user_nutrition_profile(current_user)
                      ELSE NotCalled(current_user))

\* PUT /me
update_profile(email, user_update) ==
    /\ email \in Registered
    /\ Step("update_profile", email, user_update)
    /\ UpdateUser(email, user_update, SetAttrs(users[email], user_update))

\* the body of GET /profile
NutritionProfile(current_user) ==
    [goal |-> current_user.goal,
     activity_level |-> current_user.activity_level,
     bmr |-> current_user.bmr,
     tdee |-> current_user.tdee,
     target_calories |-> current_user.target_calories,
     target_macros |-> Targets(current_user).target_macros,
     physical_stats |-> [current_weight_kg |-> current_user.current_weight_kg,
                         target_weight_kg |-> current_user.target_weight_kg,
                         height_cm |-> current_user.height_cm,
                         age |-> current_user.age,
                         gender |-> current_user.gender]]

\* variant: GET /profile brings the targets up to date before it returns them
get_nutrition_profile_refreshing(email) ==
    /\ email \in Registered
    /\ Step("get_nutrition_profile", email, <<>>)
    /\ users' = [users EXCEPT ![email] = update_user_nutrition_profile(users[email]).user]
    /\ resp' = [status |-> 200, body |-> NutritionProfile(users'[email])]
    /\ calls' = update_user_nutrition_profile(users[email]).calls
    /\ Remember

\* GET /profile
get_nutrition_profile(email) ==
    /\ email \in Registered
    /\ Step("get_nutrition_profile", email, <<>>)
    /\ resp' = [status |-> 200, body |-> NutritionProfile(users[email])]
    /\ calls' = <<>>
    /\ UNCHANGED <<users, everComplete>>

\* the row as the nutrition service left it is returned
Recalculated(email, r) ==
    /\ users' = IF r.committed THEN [users EXCEPT ![email] = r.user] ELSE users
    /\ calls' = r.calls
    /\ resp' = [status |-> 200, body |-> Targets(r.user)]
    /\ Remember

\* variant: the handler calls the nutrition service without checking the row first
recalculate_nutrition_profile_unchecked(email) ==
    /\ email \in Registered
    /\ Step("recalculate_nutrition_profile", email, <<>>)
    /\ Recalculated(email, update_user_nutrition_profile(users[email]))

\* POST /recalculate
recalculate_nutrition_profile(email) ==
    /\ email \in Registered
    /\ Step("recalculate_nutrition_profile", email, <<>>)
    /\ IF ~AllRequired(users[email])
       THEN /\ resp' = [status |-> 400, body |-> <<>>]
            /\ calls' = <<>>
            /\ UNCHANGED <<users, everComplete>>
       ELSE Recalculated(email, update_user_nutrition_profile(users[email]))

\* the body of POST /calculate
StatsBody(q, bmr, tdee, target_calories, macros) ==
    [inputs |-> q,
     results |-> [bmr |-> Some(Round1(bmr)),
                  tdee |-> Some(Round1(tdee)),
                  target_calories |-> Some(Round1(target_calories)),
                  target_macros |-> [protein_g |-> Some(macros.protein_g),
                                     carbs_g |-> Some(macros.carbs_g),
                                     fats_g |-> Some(macros.fats_g)]],
     multiplier |-> ACTIVITY_MULTIPLIERS[q.activity_level]]

\* macros = calculate_macros(target_calories, goal)
StatsMacros(q, bmr, tdee, target_calories) ==
    StatsBody(q, bmr, tdee, target_calories, calculate_macros(target_calories, q.goal))

\* target_calories = calculate_target_calories(tdee, goal, weight_kg, weight_kg)
StatsTargetCalories(q, bmr, tdee) ==
    StatsMacros(q, bmr, tdee,
                calculate_target_calories(tdee, q.goal, FInt(q.weight_kg), FInt(q.weight_kg)))

\* tdee = calculate_tdee(bmr, activity_level)
StatsTdee(q, bmr) == StatsTargetCalories(q, bmr, calculate_tdee(bmr, q.activity_level))

\* bmr = calculate_bmr(weight_kg, height_cm, age, gender)
Stats(q) == StatsTdee(q, calculate_bmr(FInt(q.weight_kg), FInt(q.height_cm), q.age, q.gender))

\* variant: the gender is checked as written, without lower()
calculate_nutrition_stats_case_sensitive(q) ==
    /\ Step("calculate_nutrition_stats", "", q)
    /\ UNCHANGED <<users, everComplete>>
    /\ IF q.gender \notin {Male, Female} \/ q.activity_level \notin DOMAIN ACTIVITY_MULTIPLIERS
       THEN /\ resp' = [status |-> 400, body |-> [inputs |-> q]]
            /\ calls' = <<>>
       ELSE /\ resp' = [status |-> 200, body |-> Stats(q)]
            /\ calls' = <<"calculate_bmr", "calculate_tdee",
                          "calculate_target_calories", "calculate_macros">>

\* POST /calculate: no authentication, nothing stored
calculate_nutrition_stats(q) ==
    /\ Step("calculate_nutrition_stats", "", q)
    /\ UNCHANGED <<users, everComplete>>
    /\ IF Lower(q.gender) \notin {Male, Female}
       THEN /\ resp' = [status |-> 400, body |-> [inputs |-> q]]
            /\ calls' = <<>>
       ELSE IF q.activity_level \notin DOMAIN ACTIVITY_MULTIPLIERS
       THEN /\ resp' = [status |-> 400, body |-> [inputs |-> q]]
            /\ calls' = <<>>
       ELSE /\ resp' = [status |-> 200, body |-> Stats(q)]
            /\ calls' = <<"calculate_bmr", "calculate_tdee",
                          "calculate_target_calories", "calculate_macros">>

Next ==
    \/ \E email \in Emails, op \in {"update_profile", "get_nutrition_profile",
                                    "recalculate_nutrition_profile"} : Unauthorized(op, email)
    \/ \E email \in Emails, user_data \in RegisterBodies : register(email, user_data)
    \/ \E email \in Emails, user_update \in UpdateBodies : update_profile(email, user_update)
    \/ \E email \in Emails : get_nutrition_profile(email)
    \/ \E email \in Emails : recalculate_nutrition_profile(email)
    \/ \E q \in CalculateQueries : calculate_nutrition_stats(q)

Spec == Init /\ [][Next]_vars

(***************************************************************************)
(* The calculator on its own: the four static functions, each applied to   *)
(* the arguments of the request and to the value the one before it         *)
(* returned.  A weight or a height is given as a number of quarters, so    *)
(* that fractional values (70.5 kg, 175.25 cm) are among the arguments.    *)
(***************************************************************************)
\* the float n / 4
Quarters(n) == FDivInt(FInt(n), 4)

CalculatorArgs ==
    [weight_quarters : {200, 240, 282, 328, 480, 800},
     height_quarters : {640, 701},
     age             : {25, 40},
     gender          : {Male, <<"M", "a", "l", "e">>, <<"M", "A", "L", "E">>, Female,
                        <<"o", "t", "h", "e", "r">>},
     activity_level  : {"sedentary", "light", "moderate", "active", "very_active", "extreme",
                        "Sedentary", "VERY_ACTIVE"},
     goal            : {"bulk", "cut", "maintain", "recomp", "Bulk", "CUT"}]

NoResults == [bmr |-> None, tdee |-> None, target_calories |-> None, macros |-> None]

InitCalc ==
    /\ users = <<>>
    /\ req \in {[op |-> "calculator", email |-> "", body |-> q] : q \in CalculatorArgs}
    /\ resp = [status |-> 0, body |-> NoResults]
    /\ calls = <<>>
    /\ everComplete = {}
    /\ steps = 0
    /\ sessions = <<>>

CallBmr ==
    /\ calls = <<>>
    /\ calls' = <<"calculate_bmr">>
    /\ resp' = [resp EXCEPT !.body.bmr =
                   Some(calculate_bmr(Quarters(req.body.weight_quarters),
                                      Quarters(req.body.height_quarters),
                                      req.body.age, req.body.gender))]
    /\ UNCHANGED <<users, req, everComplete, steps, sessions>>

CallTdee ==
    /\ calls = <<"calculate_bmr">>
    /\ calls' = Append(calls, "calculate_tdee")
    /\ resp' = [resp EXCEPT !.body.tdee =
                   Some(calculate_tdee(resp.body.bmr[1], req.body.activity_level))]
    /\ UNCHANGED <<users, req, everComplete, steps, sessions>>

CallTargetCalories ==
    /\ calls = <<"calculate_bmr", "calculate_tdee">>
    /\ calls' = Append(calls, "calculate_target_calories")
    /\ resp' = [resp EXCEPT !.body.target_calories =
                   Some(calculate_target_calories(resp.body.tdee[1], req.body.goal,
                                                  Quarters(req.body.weight_quarters),
                                                  Quarters(req.body.weight_quarters)))]
    /\ UNCHANGED <<users, req, everComplete, steps, sessions>>

CallMacros ==
    /\ calls = <<"calculate_bmr", "calculate_tdee", "calculate_target_calories">>
    /\ calls' = Append(calls, "calculate_macros")
    /\ resp' = [resp EXCEPT !.body.macros =
                   Some(calculate_macros(resp.body.target_calories[1], req.body.goal))]
    /\ UNCHANGED <<users, req, everComplete, steps, sessions>>

NextCalc == CallBmr \/ CallTdee \/ CallTargetCalories \/ CallMacros

SpecCalc == InitCalc /\ [][NextCalc]_vars

(***************************************************************************)
(* calculate_bmr called twice on one weight, height and age, once for       *)
(* "male" and once for "female".  The weight and the height are decimal     *)
(* numbers with one digit after the point (70.1 kg, 175.3 cm), given as a   *)
(* number of tenths; the float is the one Python reads from that decimal.   *)
(***************************************************************************)
\* the float of the decimal n / 10
Decimal1(n) == FLit(n, 10)

BmrArgs ==
    [weight_tenths : {1, 35, 600, 701, 825, 1204},
     height_tenths : {322, 505, 1600, 1753, 1801},
     age           : {1, 25, 40, 80}]

InitBmr ==
    /\ users = <<>>
    /\ req \in {[op |-> "calculate_bmr", email |-> "", body |-> q] : q \in BmrArgs}
    /\ resp = [status |-> 0, body |-> [male |-> None, female |-> None]]
    /\ calls = <<>>
    /\ everComplete = {}
    /\ steps = 0
    /\ sessions = <<>>

CallBmrMale ==
    /\ resp.body.male = None
    /\ resp' = [resp EXCEPT !.body.male =
                   Some(calculate_bmr(Decimal1(req.body.weight_tenths),
                                      Decimal1(req.body.height_tenths),
                                      req.body.age, Male))]
    /\ calls' = Append(calls, "calculate_bmr")
    /\ UNCHANGED <<users, req, everComplete, steps, sessions>>

CallBmrFemale ==
    /\ resp.body.female = None
    /\ resp' = [resp EXCEPT !.body.female =
                   Some(calculate_bmr(Decimal1(req.body.weight_tenths),
                                      Decimal1(req.body.height_tenths),
                                      req.body.age, Female))]
    /\ calls' = Append(calls, "calculate_bmr")
    /\ UNCHANGED <<users, req, everComplete, steps, sessions>>

NextBmr == CallBmrMale \/ CallBmrFemale

SpecBmr == InitBmr /\ [][NextBmr]_vars

(***************************************************************************)
(* calculate_bmr for an age of any size.  age is a Python int, which has   *)
(* no largest value: 5 * age is an exact int product, and the subtraction  *)
(* float - int converts it to a float, which raises OverflowError for an   *)
(* int that does not round to a finite binary64 value.  Here an age is     *)
(* odd * 2^shift, held as limbs.                                           *)
(***************************************************************************)
\* the least int that rounds to 2^1024: 2^1024 - 2^970
FloatLimit == BigSub(BigShl(<<1>>, 1024), BigShl(<<1>>, 970))

\* an exception raised in place of a returned value
Raised(exception) == [raised |-> exception]

IsRaised(v) == "raised" \in DOMAIN v

\* the conversion of a Python int n >= 0 to float in a mixed int/float operation
IntAsFloat(n) ==
    IF BigCmp(n, FloatLimit) >= 0 THEN Raised("OverflowError") ELSE Pack(1, n, 0, FALSE)

\* 10 * weight_kg + 6.25 * height_cm - 5 * age, age being an int given by its limbs
base_bmr_long(weight_kg, height_cm, age) ==
    IF IsRaised(IntAsFloat(BigMulSmall(age, 5)))
    THEN IntAsFloat(BigMulSmall(age, 5))
    ELSE FSub(FAdd(FMul(Lit_10, weight_kg), FMul(Lit_6_25, height_cm)),
              IntAsFloat(BigMulSmall(age, 5)))

\* calculate_bmr, age being an int given by its limbs: the value returned or the
\* exception that leaves the function
calculate_bmr_long(weight_kg, height_cm, age, gender) ==
    IF IsRaised(base_bmr_long(weight_kg, height_cm, age))
    THEN base_bmr_long(weight_kg, height_cm, age)
    ELSE IF Lower(gender) = <<"m", "a", "l", "e">>
    THEN FAdd(base_bmr_long(weight_kg, height_cm, age), Lit_5)
    ELSE FSub(base_bmr_long(weight_kg, height_cm, age), Lit_161)

LongAgeArgs ==
    [weight_tenths : {600, 701, 1204},
     height_tenths : {1600, 1753, 1801},
     age           : {[odd |-> 25, shift |-> 0], [odd |-> 5, shift |-> 4],
                      [odd |-> 1, shift |-> 60], [odd |-> 1, shift |-> 1021],
                      [odd |-> 3, shift |-> 1020], [odd |-> 7, shift |-> 1019],
                      [odd |-> 1, shift |-> 1022], [odd |-> 1, shift |-> 1100]},
     gender        : {Male, Female}]

InitLongAge ==
    /\ users = <<>>
    /\ req \in {[op |-> "calculate_bmr", email |-> "", body |-> q] : q \in LongAgeArgs}
    /\ resp = [status |-> 0, body |-> None]
    /\ calls = <<>>
    /\ everComplete = {}
    /\ steps = 0
    /\ sessions = <<>>

CallBmrLongAge ==
    /\ calls = <<>>
    /\ calls' = <<"calculate_bmr">>
    /\ resp' = [resp EXCEPT !.body =
                   Some(calculate_bmr_long(
                            Decimal1(req.body.weight_tenths), Decimal1(req.body.height_tenths),
                            BigShl(BigFromNat(req.body.age.odd), req.body.age.shift),
                            req.body.gender))]
    /\ UNCHANGED <<users, req, everComplete, steps, sessions>>

NextLongAge == CallBmrLongAge

SpecLongAge == InitLongAge /\ [][NextLongAge]_vars

(***************************************************************************)
(* calculate_tdee called on two values of bmr, on their sum and on a       *)
(* multiple of the first, all for one activity level.  A bmr is given as   *)
(* a number of quarters; the sum and the multiple are the floats b1 + b2   *)
(* and k * b1 the caller computes.                                         *)
(***************************************************************************)
TdeeArgs ==
    [b1_quarters    : {400, 5602, 6695, 7373},
     b2_quarters    : {4800, 6000, 7373},
     k              : {2, 3, 4},
     activity_level : {"sedentary", "light", "moderate", "active"}]

\* the bmr passed by each of the four calls
TdeeArgument(q, which) ==
    IF which = "b1" THEN Quarters(q.b1_quarters)
    ELSE IF which = "b2" THEN Quarters(q.b2_quarters)
    ELSE IF which = "sum" THEN FAdd(Quarters(q.b1_quarters), Quarters(q.b2_quarters))
    ELSE FMul(FInt(q.k), Quarters(q.b1_quarters))

InitTdee ==
    /\ users = <<>>
    /\ req \in {[op |-> "calculate_tdee", email |-> "", body |-> q] : q \in TdeeArgs}
    /\ resp = [status |-> 0, body |-> [b1 |-> None, b2 |-> None, sum |-> None, scaled |-> None]]
    /\ calls = <<>>
    /\ everComplete = {}
    /\ steps = 0
    /\ sessions = <<>>

CallTdeeOn(which) ==
    /\ resp.body[which] = None
    /\ resp' = [resp EXCEPT !.body[which] =
                   Some(calculate_tdee(TdeeArgument(req.body, which), req.body.activity_level))]
    /\ calls' = Append(calls, "calculate_tdee")
    /\ UNCHANGED <<users, req, everComplete, steps, sessions>>

NextTdee == \E which \in {"b1", "b2", "sum", "scaled"} : CallTdeeOn(which)

SpecTdee == InitTdee /\ [][NextTdee]_vars

(***************************************************************************)
(* calculate_target_calories called for "bulk", "cut" and "maintain" on    *)
(* one tdee and one current weight, both decimal numbers with one digit    *)
(* after the point given as a number of tenths.                            *)
(***************************************************************************)
GoalArgs ==
    [tdee_tenths   : {5000, 15000, 18002, 25943, 37523, 40001},
     weight_tenths : {500, 705, 825, 1204}]

InitGoals ==
    /\ users = <<>>
    /\ req \in {[op |-> "calculate_target_calories", email |-> "", body |-> q] : q \in GoalArgs}
    /\ resp = [status |-> 0, body |-> [bulk |-> None, cut |-> None, maintain |-> None]]
    /\ calls = <<>>
    /\ everComplete = {}
    /\ steps = 0
    /\ sessions = <<>>

CallTargetCaloriesFor(goal) ==
    /\ resp.body[goal] = None
    /\ resp' = [resp EXCEPT !.body[goal] =
                   Some(calculate_target_calories(Decimal1(req.body.tdee_tenths), goal,
                                                  Decimal1(req.body.weight_tenths),
                                                  Decimal1(req.body.weight_tenths)))]
    /\ calls' = Append(calls, "calculate_target_calories")
    /\ UNCHANGED <<users, req, everComplete, steps, sessions>>

NextGoals == \E goal \in {"bulk", "cut", "maintain"} : CallTargetCaloriesFor(goal)

SpecGoals == InitGoals /\ [][NextGoals]_vars

(***************************************************************************)
(* Requests that overlap.  Each request has a database Session of its own  *)
(* (db: Session = Depends(get_db)): get_current_user reads the row into    *)
(* the Session, the handler works on that object, and db.commit() writes   *)
(* back the columns whose value is no longer the one the Session read;     *)
(* db.refresh() reads the row again.  Each read, commit and refresh is a   *)
(* database call of its own, and between two calls of one request the      *)
(* calls of the others may take place.                                     *)
(***************************************************************************)
\* the number of requests in progress at the same time
MaxSessions == 2

SessionIds == 1..MaxSessions

\* a request that has not arrived
Idle ==
    [pc |-> "idle", op |-> "none", email |-> "", body |-> NoFields,
     loaded |-> <<>>, base |-> <<>>, obj |-> <<>>, wrote |-> <<>>, status |-> 0,
     result |-> <<>>]

\* db.commit(): the UPDATE sets the columns of the object whose value differs from
\* the value the Session holds as stored
Flush(row, base, obj) ==
    [col \in DOMAIN row |-> IF obj[col] # base[col] THEN obj[col] ELSE row[col]]

\* the row POST /register leaves for a body
RegisteredRow(user) ==
    IF AllRequired(user) THEN update_user_nutrition_profile(user).user ELSE user

\* the registrations the table starts from
StartBodies ==
    { FourFields,
      [FourFields EXCEPT !.goal = Given(Some("cut")), !.activity_level = Given(Some("active"))],
      [FourFields EXCEPT !.gender = Unset, !.age = Unset] }

\* bodies of PUT /me, each one giving a required input
ConcurrentBodies ==
    { [NoFields EXCEPT !.age = Given(Some(30))],
      [NoFields EXCEPT !.current_weight_kg = Given(Some(82))],
      [NoFields EXCEPT !.height_cm = Given(Some(180))],
      [NoFields EXCEPT !.gender = Given(Some(Female))] }

ConcurrentRequests ==
    {[op |-> "update_profile", body |-> b] : b \in ConcurrentBodies}
        \cup {[op |-> "recalculate_nutrition_profile", body |-> NoFields]}

InitConc ==
    /\ users \in {(e :> RegisteredRow(create_user(d))) : e \in Emails, d \in StartBodies}
    /\ req = [op |-> "none", email |-> "", body |-> <<>>]
    /\ resp = [status |-> 0, body |-> <<>>]
    /\ calls = <<>>
    /\ everComplete = {e \in DOMAIN users : HasAllFour(users[e])}
    /\ steps = 0
    /\ sessions = [s \in SessionIds |-> Idle]

\* get_current_user: the Session of the request reads the row of the caller
Load(s, email, r) ==
    /\ sessions[s].pc = "idle"
    /\ email \in Registered
    /\ sessions' = [sessions EXCEPT ![s] =
                       [pc |-> "loaded", op |-> r.op, email |-> email, body |-> r.body,
                        loaded |-> users[email], base |-> users[email], obj |-> users[email],
                        wrote |-> <<>>, status |-> 0, result |-> <<>>]]
    /\ UNCHANGED <<users, req, resp, calls, everComplete, steps>>

\* the nutrition service was called by the request s and computed r: where it
\* goes on to db.commit(), the row takes the columns changed on the object, wrote
\* keeps the six targets assigned, and db.refresh(user) is the next database call;
\* where it returned early or was not called, the handler goes on at pc
ServiceCommit(s, r, pc) ==
    /\ users' = IF r.committed
                THEN [users EXCEPT ![sessions[s].email] = Flush(@, sessions[s].base, r.user)]
                ELSE users
    /\ sessions' = [sessions EXCEPT
                       ![s].pc = IF r.committed THEN "service_refresh" ELSE pc,
                       ![s].base = IF r.committed THEN r.user ELSE @,
                       ![s].obj = r.user,
                       ![s].wrote = IF r.committed THEN Targets(r.user) ELSE @]
    /\ Remember
    /\ UNCHANGED <<req, resp, calls, steps>>

\* db.refresh(user) of the nutrition service: the object takes the row as it is
\* now; recalculate_nutrition_profile answers with it, update_profile goes on to
\* its own db.commit()
ServiceRefresh(s) ==
    /\ sessions[s].pc = "service_refresh"
    /\ sessions' = [sessions EXCEPT
                       ![s].pc = IF sessions[s].op = "update_profile"
                                 THEN "committing" ELSE "done",
                       ![s].status = IF sessions[s].op = "update_profile" THEN 0 ELSE 200,
                       ![s].base = users[sessions[s].email],
                       ![s].obj = users[sessions[s].email],
                       ![s].result = IF sessions[s].op = "update_profile"
                                     THEN @ ELSE users[sessions[s].email]]
    /\ UNCHANGED <<users, req, resp, calls, everComplete, steps>>

\* update_profile up to the first db.commit() it reaches: setattr, then the
\* nutrition service if any([...])
UpdateBody(s) ==
    /\ sessions[s].pc = "loaded"
    /\ sessions[s].op = "update_profile"
    /\ ServiceCommit(s, IF AnyRequired(sessions[s].body)
                        THEN update_user_nutrition_profile(
                                 SetAttrs(sessions[s].obj, sessions[s].body))
                        ELSE NotCalled(SetAttrs(sessions[s].obj, sessions[s].body)),
                     "committing")

\* update_profile: db.commit()
UpdateCommit(s) ==
    /\ sessions[s].pc = "committing"
    /\ users' = [users EXCEPT ![sessions[s].email] =
                    Flush(@, sessions[s].base, sessions[s].obj)]
    /\ sessions' = [sessions EXCEPT ![s].pc = "refreshing",
                                    ![s].base = sessions[s].obj]
    /\ Remember
    /\ UNCHANGED <<req, resp, calls, steps>>

\* update_profile: db.refresh(current_user); return current_user
UpdateRefresh(s) ==
    /\ sessions[s].pc = "refreshing"
    /\ sessions' = [sessions EXCEPT ![s].pc = "done",
                                    ![s].status = 200,
                                    ![s].base = users[sessions[s].email],
                                    ![s].obj = users[sessions[s].email],
                                    ![s].result = users[sessions[s].email]]
    /\ UNCHANGED <<users, req, resp, calls, everComplete, steps>>

\* recalculate_nutrition_profile on the row the Session read, up to the
\* db.commit() of the nutrition service
RecalculateBody(s) ==
    /\ sessions[s].pc = "loaded"
    /\ sessions[s].op = "recalculate_nutrition_profile"
    /\ IF ~AllRequired(sessions[s].obj)
       THEN /\ sessions' = [sessions EXCEPT ![s].pc = "done", ![s].status = 400]
            /\ UNCHANGED <<users, req, resp, calls, everComplete, steps>>
       ELSE ServiceCommit(s, update_user_nutrition_profile(sessions[s].obj), "done")

NextConc ==
    \/ \E s \in SessionIds, email \in Emails, r \in ConcurrentRequests : Load(s, email, r)
    \/ \E s \in SessionIds : UpdateBody(s)
    \/ \E s \in SessionIds : ServiceRefresh(s)
    \/ \E s \in SessionIds : UpdateCommit(s)
    \/ \E s \in SessionIds : UpdateRefresh(s)
    \/ \E s \in SessionIds : RecalculateBody(s)

SpecConc == InitConc /\ [][NextConc]_vars

(***************************************************************************)
(* Properties of the calculator functions, under SpecCalc                  *)
(***************************************************************************)
\* every spelling of "male" in upper and lower case letters
MaleSpellings ==
    {<<c1, c2, c3, c4>> : c1 \in {"m", "M"}, c2 \in {"a", "A"}, c3 \in {"l", "L"}, c4 \in {"e", "E"}}

\* the float that is exactly n / 16
Sixteenths(n) == Pack(Sign(n), BigFromNat(Abs(n)), -4, FALSE)

\* 16 * (10 * weight_kg + 6.25 * height_cm - 5 * age + offset) in integers, the
\* weight and the height being numbers of quarters
BmrSixteenths(q, offset) ==
    40 * q.weight_quarters + 25 * q.height_quarters - 80 * q.age + 16 * offset

\* C1: calculate_bmr returns 10*weight_kg + 6.25*height_cm - 5*age + 5 when the
\* gender is "male" in any mix of upper and lower case, and the same base - 161
\* for every other gender string, without an error.
C1_BmrFormula ==
    resp.body.bmr # None =>
        resp.body.bmr[1] =
            IF req.body.gender \in MaleSpellings
            THEN Sixteenths(BmrSixteenths(req.body, 5))
            ELSE Sixteenths(BmrSixteenths(req.body, -161))

\* calculate_bmr has answered for "MALE" with the male formula and a fractional
\* weight and height
C1_Witness ==
    /\ resp.body.bmr # None
    /\ req.body.gender = <<"M", "A", "L", "E">>
    /\ req.body.weight_quarters = 282
    /\ req.body.height_quarters = 701
    /\ resp.body.bmr[1] = Sixteenths(BmrSixteenths(req.body, 5))

\* clamp(v, lo, hi) on integers
Clamp(v, lo, hi) == IF v < lo THEN lo ELSE IF v > hi THEN hi ELSE v

\* clamp(current_weight * 5, 300, 500) as a float, computed in quarters
ClampedChange(q) == Quarters(Clamp(5 * q.weight_quarters, 4 * 300, 4 * 500))

\* C6: calculate_target_calories returns tdee + clamp(current_weight*5, 300, 500)
\* for "bulk", tdee - clamp(current_weight*5, 300, 500) for "cut", and tdee itself
\* for "maintain" and every other goal.
C6_TargetCalories ==
    resp.body.target_calories # None =>
        resp.body.target_calories[1] =
            IF req.body.goal = "bulk" THEN FAdd(resp.body.tdee[1], ClampedChange(req.body))
            ELSE IF req.body.goal = "cut" THEN FSub(resp.body.tdee[1], ClampedChange(req.body))
            ELSE resp.body.tdee[1]

\* calculate_target_calories has answered for "cut" at 120 kg, where
\* current_weight * 5 = 600 is clamped to 500
C6_Witness ==
    /\ resp.body.target_calories # None
    /\ req.body.goal = "cut"
    /\ req.body.weight_quarters = 480
    /\ resp.body.target_calories[1] = FSub(resp.body.tdee[1], FInt(500))

\* the float tdee + sign * n / 4
Adjusted(tdee, sign, quarters) ==
    IF sign > 0 THEN FAdd(tdee, Quarters(quarters)) ELSE FSub(tdee, Quarters(quarters))

\* the result for an adjustment that saturates: 300 where current_weight * 5 <= 300,
\* 500 where current_weight * 5 >= 500, current_weight * 5 strictly between them
Saturated(tdee, sign, weight_quarters) ==
    IF 5 * weight_quarters <= 4 * 300 THEN Adjusted(tdee, sign, 4 * 300)
    ELSE IF 5 * weight_quarters >= 4 * 500 THEN Adjusted(tdee, sign, 4 * 500)
    ELSE Adjusted(tdee, sign, 5 * weight_quarters)

\* C17: for "bulk" the result is tdee + 300 for every current_weight with
\* current_weight * 5 <= 300 (50 kg, 60 kg), tdee + 500 for every current_weight
\* with current_weight * 5 >= 500 (120 kg, 200 kg), and tdee plus current_weight * 5,
\* a value between 300 and 500, for the others; for "cut" the same is subtracted.
C17_ClampSaturates ==
    resp.body.target_calories # None =>
        /\ req.body.goal = "bulk" =>
               resp.body.target_calories[1]
                   = Saturated(resp.body.tdee[1], 1, req.body.weight_quarters)
        /\ req.body.goal = "cut" =>
               resp.body.target_calories[1]
                   = Saturated(resp.body.tdee[1], -1, req.body.weight_quarters)

\* calculate_target_calories has answered for "bulk" at 200 kg with tdee + 500
C17_Witness ==
    /\ resp.body.target_calories # None
    /\ req.body.goal = "bulk"
    /\ req.body.weight_quarters = 800
    /\ resp.body.target_calories[1] = FAdd(resp.body.tdee[1], FInt(500))
    /\ resp.body.target_calories[1] # FAdd(resp.body.tdee[1], FInt(1000))

\* the multiplier the table gives, 1.55 outside the table
TableMultiplier(activity_level) ==
    CASE activity_level = "sedentary"   -> FLit(12, 10)
      [] activity_level = "light"       -> FLit(1375, 1000)
      [] activity_level = "moderate"    -> FLit(155, 100)
      [] activity_level = "active"      -> FLit(1725, 1000)
      [] activity_level = "very_active" -> FLit(19, 10)
      [] OTHER                          -> FLit(155, 100)

\* C7: calculate_tdee returns bmr times the table's multiplier (sedentary 1.2,
\* light 1.375, moderate 1.55, active 1.725, very_active 1.9), and for an
\* activity level outside the table the value it returns for "moderate".
C7_TdeeTable ==
    resp.body.tdee # None =>
        /\ resp.body.tdee[1] = FMul(resp.body.bmr[1], TableMultiplier(req.body.activity_level))
        /\ req.body.activity_level \notin
               {"sedentary", "light", "moderate", "active", "very_active"}
           => resp.body.tdee[1] = calculate_tdee(resp.body.bmr[1], "moderate")

\* calculate_tdee has answered for "extreme" with bmr * 1.55
C7_Witness ==
    /\ resp.body.tdee # None
    /\ req.body.activity_level = "extreme"
    /\ resp.body.tdee[1] = FMul(resp.body.bmr[1], FLit(155, 100))

\* the ratios of a goal, in hundredths: protein, carbs, fats
RatioHundredths(goal) ==
    IF goal = "bulk" THEN <<30, 40, 30>>
    ELSE IF goal = "cut" THEN <<35, 30, 35>>
    ELSE <<25, 45, 30>>

\* round1(calories * ratio / kcal_per_gram), as a number of tenths
GramsTenths(calories, hundredths, kcal_per_gram) ==
    Round1(FDivInt(FMul(calories, FLit(hundredths, 100)), kcal_per_gram))

\* C8: calculate_macros uses the ratios 0.30/0.40/0.30 for "bulk", 0.35/0.30/0.35
\* for "cut" and 0.25/0.45/0.30 for every other goal, and returns
\* round1(calories*ratio/4) for protein and carbs and round1(calories*ratio/9) for fats.
C8_Macros ==
    resp.body.macros # None =>
        resp.body.macros[1] =
            [protein_g |-> GramsTenths(resp.body.target_calories[1],
                                       RatioHundredths(req.body.goal)[1], 4),
             carbs_g   |-> GramsTenths(resp.body.target_calories[1],
                                       RatioHundredths(req.body.goal)[2], 4),
             fats_g    |-> GramsTenths(resp.body.target_calories[1],
                                       RatioHundredths(req.body.goal)[3], 9)]

\* calculate_macros has answered for "cut", the one goal with more protein than carbs
C8_Witness ==
    /\ resp.body.macros # None
    /\ req.body.goal = "cut"
    /\ resp.body.macros[1].protein_g > resp.body.macros[1].carbs_g
    /\ resp.body.macros[1].fats_g > 0

\* protein_ratio + carbs_ratio + fats_ratio, added as floats in that order
RatioSum(goal) ==
    FAdd(FAdd(MacroRatios(goal).protein, MacroRatios(goal).carbs), MacroRatios(goal).fats)

\* the float 1 - 2^-53, the largest below 1.0 (printed 0.9999999999999999)
BelowOne == FSub(FInt(1), Pack(1, <<1>>, -53, FALSE))

\* C18 as stated: for every goal (bulk, cut, maintain or any other string) the
\* protein, carbs and fats ratios used by calculate_macros sum to exactly 1.0.
C18_RatiosSumToOne ==
    resp.body.macros # None => RatioSum(req.body.goal) = FInt(1)

\* C18 as amended: for every goal the three ratios are the floats of hundredths that
\* sum to 100; their float sum is exactly 1.0 for "bulk" and for "maintain" or any
\* other string, and 0.9999999999999999, one rounding step below 1.0, for "cut".
C18_RatiosSumRounded ==
    resp.body.macros # None =>
        /\ MacroRatios(req.body.goal).protein = FLit(RatioHundredths(req.body.goal)[1], 100)
        /\ MacroRatios(req.body.goal).carbs = FLit(RatioHundredths(req.body.goal)[2], 100)
        /\ MacroRatios(req.body.goal).fats = FLit(RatioHundredths(req.body.goal)[3], 100)
        /\ RatioHundredths(req.body.goal)[1] + RatioHundredths(req.body.goal)[2]
               + RatioHundredths(req.body.goal)[3] = 100
        /\ RatioSum(req.body.goal) = IF req.body.goal = "cut" THEN BelowOne ELSE FInt(1)

\* calculate_macros has answered for "cut", whose ratios 0.35 + 0.30 + 0.35 add up
\* to the float below 1.0
C18_Witness ==
    /\ resp.body.macros # None
    /\ req.body.goal = "cut"
    /\ RatioSum(req.body.goal) = BelowOne
    /\ FCmp(RatioSum(req.body.goal), FInt(1)) < 0

\* spellings of a table key or of a goal in other letter cases, and the exact
\* lowercase string each stands for
CaseVariants ==
    [Sedentary |-> "sedentary", VERY_ACTIVE |-> "very_active", Bulk |-> "bulk", CUT |-> "cut"]

\* C26: activity_level and goal are matched as written: calculate_tdee gives a case
\* variant of a table key ("Sedentary", "VERY_ACTIVE") the multiplier 1.55 and not
\* the key's, and calculate_target_calories and calculate_macros treat a case
\* variant of "bulk" or "cut" ("Bulk", "CUT") as maintain.
C26_CaseSensitive ==
    /\ (resp.body.tdee # None /\ req.body.activity_level \in {"Sedentary", "VERY_ACTIVE"})
           => /\ resp.body.tdee[1] = FMul(resp.body.bmr[1], FLit(155, 100))
              /\ resp.body.tdee[1] #
                     FMul(resp.body.bmr[1],
                          TableMultiplier(CaseVariants[req.body.activity_level]))
    /\ (resp.body.target_calories # None /\ req.body.goal \in {"Bulk", "CUT"})
           => resp.body.target_calories[1] = resp.body.tdee[1]
    /\ (resp.body.macros # None /\ req.body.goal \in {"Bulk", "CUT"})
           => /\ resp.body.macros[1] =
                     [protein_g |-> GramsTenths(resp.body.target_calories[1], 25, 4),
                      carbs_g   |-> GramsTenths(resp.body.target_calories[1], 45, 4),
                      fats_g    |-> GramsTenths(resp.body.target_calories[1], 30, 9)]
              /\ resp.body.macros[1].protein_g #
                     GramsTenths(resp.body.target_calories[1],
                                 RatioHundredths(CaseVariants[req.body.goal])[1], 4)

\* the four functions have answered for "VERY_ACTIVE" and "CUT": the tdee is
\* bmr * 1.55 and the target calories are the tdee, no deficit taken
C26_Witness ==
    /\ resp.body.macros # None
    /\ req.body.activity_level = "VERY_ACTIVE"
    /\ req.body.goal = "CUT"
    /\ resp.body.tdee[1] = FMul(resp.body.bmr[1], FLit(155, 100))
    /\ resp.body.target_calories[1] = resp.body.tdee[1]
    /\ resp.body.macros[1].carbs_g > resp.body.macros[1].protein_g

\* 2^(-50)
TwoToMinus50 == Pack(1, <<1>>, -50, FALSE)

\* |x - y| <= 2^(-50) * |x|: x and y differ by rounding errors only
NearlyEqual(x, y) ==
    FCmp(FMul(FSub(x, y), FInt(Sign(FCmp(x, y)))),
         FMul(FMul(x, FInt(x.s)), TwoToMinus50)) <= 0

\* 4*protein_g + 4*carbs_g + 9*fats_g of the dict calculate_macros returned, each
\* value the float of its number of tenths
RoundedEnergy ==
    FAdd(FAdd(FMul(FInt(4), FLit(resp.body.macros[1].protein_g, 10)),
              FMul(FInt(4), FLit(resp.body.macros[1].carbs_g, 10))),
         FMul(FInt(9), FLit(resp.body.macros[1].fats_g, 10)))

\* the same sum over the grams before round(..., 1):
\* 4*((t*protein_ratio)/4) + 4*((t*carbs_ratio)/4) + 9*((t*fats_ratio)/9)
UnroundedEnergy ==
    FAdd(FAdd(FMul(FInt(4), FDivInt(FMul(resp.body.target_calories[1],
                                         MacroRatios(req.body.goal).protein), 4)),
              FMul(FInt(4), FDivInt(FMul(resp.body.target_calories[1],
                                         MacroRatios(req.body.goal).carbs), 4))),
         FMul(FInt(9), FDivInt(FMul(resp.body.target_calories[1],
                                    MacroRatios(req.body.goal).fats), 9)))

\* |x - y|
Distance(x, y) == FMul(FSub(x, y), FInt(Sign(FCmp(x, y))))

\* C28 as stated: for every goal and target_calories the grams returned by
\* calculate_macros give back the calories, 4*protein_g + 4*carbs_g + 9*fats_g =
\* target_calories with an absolute error of at most 0.85 kcal after the rounding to
\* one decimal, and exactly before it.
C28_RoundTrip ==
    resp.body.macros # None =>
        /\ FCmp(Distance(RoundedEnergy, resp.body.target_calories[1]), FLit(85, 100)) <= 0
        /\ UnroundedEnergy = resp.body.target_calories[1]

\* C28 as amended: the rounded grams give back target_calories with an absolute
\* error of at most 0.85 kcal plus the float rounding error 2^-50 * |target_calories|,
\* and the grams before rounding give it back up to that float rounding error.
C28_RoundTripRounded ==
    resp.body.macros # None =>
        /\ FCmp(Distance(RoundedEnergy, resp.body.target_calories[1]),
                FAdd(FLit(85, 100),
                     FMul(Distance(resp.body.target_calories[1], FInt(0)), TwoToMinus50))) <= 0
        /\ NearlyEqual(resp.body.target_calories[1], UnroundedEnergy)

\* calculate_macros has answered for "cut" with grams that, before rounding, give
\* back a float next to target_calories and not target_calories itself
C28_Witness ==
    /\ resp.body.macros # None
    /\ req.body.goal = "cut"
    /\ UnroundedEnergy # resp.body.target_calories[1]
    /\ NearlyEqual(resp.body.target_calories[1], UnroundedEnergy)
    /\ RoundedEnergy # resp.body.target_calories[1]

(***************************************************************************)
(* Properties of the service and of the handlers, under Spec               *)
(***************************************************************************)
\* the members of a sequence
Range(seq) == {seq[k] : k \in 1..Len(seq)}

IsCalculator(c) ==
    c \in {"calculate_bmr", "calculate_tdee", "calculate_target_calories", "calculate_macros"}

FourInOrder == <<"calculate_bmr", "calculate_tdee", "calculate_target_calories", "calculate_macros">>

ServiceInvoked(trace) == "update_user_nutrition_profile" \in Range(trace)

NoTargets(user) ==
    /\ user.bmr = None
    /\ user.tdee = None
    /\ user.target_calories = None
    /\ user.target_protein_g = None
    /\ user.target_carbs_g = None
    /\ user.target_fats_g = None

\* the four calculator functions composed, each fed the unrounded value of the one
\* before it, every result rounded to one decimal
Composed(weight_kg, height_cm, age, gender, activity_level, goal) ==
    LET bmr    == calculate_bmr(FInt(weight_kg), FInt(height_cm), age, gender)
        tdee   == calculate_tdee(bmr, activity_level)
        target == calculate_target_calories(tdee, goal, FInt(weight_kg), FInt(weight_kg))
        macros == calculate_macros(target, goal)
    IN  [bmr             |-> Some(Round1(bmr)),
         tdee            |-> Some(Round1(tdee)),
         target_calories |-> Some(Round1(target)),
         target_macros   |-> [protein_g |-> Some(macros.protein_g),
                              carbs_g   |-> Some(macros.carbs_g),
                              fats_g    |-> Some(macros.fats_g)]]

\* the targets the calculator gives for the inputs of a row, a missing or empty
\* activity level standing for "moderate" and a missing or empty goal for "maintain"
ExpectedTargets(user) ==
    Composed(user.current_weight_kg[1], user.height_cm[1], user.age[1], user.gender[1],
             IF user.activity_level \in {None, Some("")} THEN "moderate"
                                                          ELSE user.activity_level[1],
             IF user.goal \in {None, Some("")} THEN "maintain" ELSE user.goal[1])

\* C2: update_profile (update_user_nutrition_profile), called on a user that has
\* weight, height, age and gender, calls the calculators in the order bmr, tdee,
\* target_calories, macros and stores round1 of each stage's value, each stage
\* having consumed the unrounded value of the stage before it.
C2_StagesInOrder ==
    (ServiceInvoked(calls) /\ HasAllFour(users[req.email])) =>
        /\ SelectSeq(calls, IsCalculator) = FourInOrder
        /\ Targets(users[req.email]) = ExpectedTargets(users[req.email])

\* the service has run for weight 70, height 175, age 25, "male": the bmr 1673.75 is
\* stored as 1673.8 and the tdee 2594.3125 (not 1673.8 * 1.55) as 2594.3
C2_Witness ==
    /\ ServiceInvoked(calls)
    /\ req.email \in DOMAIN users
    /\ users[req.email].current_weight_kg = Some(70)
    /\ users[req.email].bmr = Some(16738)
    /\ users[req.email].tdee = Some(25943)

\* the row the nutrition service is handed by the request of a step
ServiceInput ==
    IF req'.op = "register" THEN create_user(req'.body)
    ELSE IF req'.op = "update_profile" THEN SetAttrs(users[req'.email], req'.body)
    ELSE users[req'.email]

\* C3: called on a user lacking (or holding a falsy) weight, height, age or gender,
\* update_profile returns the user it was given, every field as it was, computes
\* nothing, commits nothing and raises nothing; the request is answered normally.
C3_GuardNoOp ==
    [][(ServiceInvoked(calls') /\ ~HasAllFour(ServiceInput)) =>
          /\ update_user_nutrition_profile(ServiceInput)
                 = [user |-> ServiceInput, committed |-> FALSE,
                    calls |-> <<"update_user_nutrition_profile">>]
          /\ SelectSeq(calls', IsCalculator) = <<>>
          /\ users'[req'.email] = ServiceInput
          /\ resp'.status = 200]_vars

\* PUT /me gave a new weight to a row without an age: the service was called and
\* returned at its guard
C3_Witness ==
    /\ req.op = "update_profile"
    /\ calls = <<"update_user_nutrition_profile", "db.commit">>
    /\ users[req.email].current_weight_kg = Some(82)
    /\ users[req.email].age = None
    /\ NoTargets(users[req.email])

\* the step wrote a derived target of the row of e
TargetsWritten(e) ==
    \/ e \in DOMAIN users /\ Targets(users'[e]) # Targets(users[e])
    \/ e \notin DOMAIN users /\ ~NoTargets(users'[e])
    \/ req'.email = e /\ Range(calls') \cap Range(FourInOrder) # {}

\* C4: over register, PUT /me and recalculate, a step that computes or writes a
\* derived target leaves a row holding weight, height, age and gender, and a user
\* whose row never held all four has all six targets unset.
C4_NoPartialInputs ==
    [][\A e \in DOMAIN users' :
          /\ TargetsWritten(e) => HasAllFour(users'[e])
          /\ e \notin everComplete' => NoTargets(users'[e])]_vars

\* a user registered with weight, height, gender and the age 0 (falsy), then
\* updated: three of the four inputs are there and no target was ever written
C4_Witness ==
    \E e \in DOMAIN users :
        /\ e \notin everComplete
        /\ users[e].age = Some(0)
        /\ users[e].current_weight_kg # None
        /\ users[e].gender # None
        /\ steps >= 2
        /\ NoTargets(users[e])

RequiredInputs(user) == <<user.current_weight_kg, user.height_cm, user.age, user.gender>>

\* C5: after a PUT /me that changed one of weight, height, age, gender, and after
\* every recalculation, if the row holds all four inputs then the calculators ran
\* and the stored targets are the calculator's result on the inputs as stored.
C5_Recomputed ==
    [][(/\ resp'.status = 200
        /\ \/ /\ req'.op = "update_profile"
              /\ RequiredInputs(users'[req'.email]) # RequiredInputs(users[req'.email])
           \/ req'.op = "recalculate_nutrition_profile"
        /\ HasAllFour(users'[req'.email]))
       => /\ SelectSeq(calls', IsCalculator) = FourInOrder
          /\ Targets(users'[req'.email]) = ExpectedTargets(users'[req'.email])]_vars

\* PUT /me changed nothing but the age, to 30, on a complete row: the targets stored
\* are those of the age 30
C5_Witness ==
    /\ req.op = "update_profile"
    /\ req.body = [NoFields EXCEPT !.age = Given(Some(30))]
    /\ HasAllFour(users[req.email])
    /\ users[req.email].age = Some(30)
    /\ ServiceInvoked(calls)
    /\ Targets(users[req.email]) = ExpectedTargets(users[req.email])

\* C9: POST /recalculate on a row lacking weight, height, age or gender answers 400
\* without a call to the calculator and leaves the table as it was; on a row with
\* all four it calls update_profile, stores the new targets and returns exactly the
\* stored values.
C9_Recalculate ==
    [][(req'.op = "recalculate_nutrition_profile" /\ req'.email \in DOMAIN users) =>
          IF ~HasAllFour(users[req'.email])
          THEN /\ resp'.status = 400
               /\ calls' = <<>>
               /\ users' = users
          ELSE /\ resp'.status = 200
               /\ ServiceInvoked(calls')
               /\ SelectSeq(calls', IsCalculator) = FourInOrder
               /\ RequiredInputs(users'[req'.email]) = RequiredInputs(users[req'.email])
               /\ Targets(users'[req'.email]) = ExpectedTargets(users[req'.email])
               /\ resp'.body = Targets(users'[req'.email])]_vars

\* a row that has targets lost its weight, and the recalculation was refused
C9_Witness ==
    /\ req.op = "recalculate_nutrition_profile"
    /\ resp.status = 400
    /\ req.email \in DOMAIN users
    /\ users[req.email].current_weight_kg = None
    /\ ~NoTargets(users[req.email])

\* every spelling of "female" in upper and lower case letters
FemaleSpellings ==
    {<<c1, c2, c3, c4, c5, c6>> : c1 \in {"f", "F"}, c2 \in {"e", "E"}, c3 \in {"m", "M"},
                                  c4 \in {"a", "A"}, c5 \in {"l", "L"}, c6 \in {"e", "E"}}

\* C10: POST /calculate answers 400, no calculator function called, when the gender
\* is neither "male" nor "female" in any mix of cases or the activity level is not
\* a key of the table; every other request is answered with the values of the four
\* calculator functions.
C10_Calculate ==
    req.op = "calculate_nutrition_stats" =>
        IF \/ req.body.gender \notin MaleSpellings \cup FemaleSpellings
           \/ req.body.activity_level \notin
                  {"sedentary", "light", "moderate", "active", "very_active"}
        THEN resp.status = 400 /\ calls = <<>>
        ELSE /\ resp.status = 200
             /\ calls = FourInOrder
             /\ resp.body.results =
                    Composed(req.body.weight_kg, req.body.height_cm, req.body.age,
                             req.body.gender, req.body.activity_level, req.body.goal)

\* "Female" with a capital passed the check and was computed
C10_Witness ==
    /\ req.op = "calculate_nutrition_stats"
    /\ req.body.gender = <<"F", "e", "m", "a", "l", "e">>
    /\ resp.status = 200
    /\ resp.body.results.target_macros.protein_g # None

\* the handler that answered called the four calculator functions
PipelineRan(trace) == SelectSeq(trace, IsCalculator) = FourInOrder

\* the six inputs of that run: the query of POST /calculate, else the inputs of
\* the caller's row, "moderate" and "maintain" standing for a missing level and goal
PipelineInputs(rq, tbl) ==
    IF rq.op = "calculate_nutrition_stats"
    THEN <<rq.body.weight_kg, rq.body.height_cm, rq.body.age, rq.body.gender,
           rq.body.activity_level, rq.body.goal>>
    ELSE <<tbl[rq.email].current_weight_kg[1], tbl[rq.email].height_cm[1],
           tbl[rq.email].age[1], tbl[rq.email].gender[1],
           IF tbl[rq.email].activity_level \in {None, Some("")}
           THEN "moderate" ELSE tbl[rq.email].activity_level[1],
           IF tbl[rq.email].goal \in {None, Some("")}
           THEN "maintain" ELSE tbl[rq.email].goal[1]>>

\* the six outputs of that run: returned by POST /calculate, else stored in the row
PipelineOutputs(rq, rs, tbl) ==
    IF rq.op = "calculate_nutrition_stats" THEN rs.body.results ELSE Targets(tbl[rq.email])

\* C12: two runs of the calculator pipeline on equal weight, height, age, gender,
\* activity level and goal give equal bmr, tdee, target_calories, protein_g, carbs_g
\* and fats_g, whatever the handlers that ran them, the table and the requests
\* answered before each: checked on every two runs that follow one another.
C12_Deterministic ==
    [][(/\ PipelineRan(calls)
        /\ PipelineRan(calls')
        /\ PipelineInputs(req, users) = PipelineInputs(req', users'))
       => PipelineOutputs(req, resp, users) = PipelineOutputs(req', resp', users')]_vars

\* POST /calculate ran the pipeline on 70 kg, 175 cm, 25, "male", "moderate",
\* "maintain" after a request of a user whose row holds the same inputs, and the
\* values returned are the values stored
C12_Witness ==
    /\ steps >= 2
    /\ req.op = "calculate_nutrition_stats"
    /\ PipelineRan(calls)
    /\ \E e \in DOMAIN users :
           /\ HasAllFour(users[e])
           /\ PipelineInputs([op |-> "update_profile", email |-> e], users)
                  = PipelineInputs(req, users)
           /\ resp.body.results = Targets(users[e])

\* C13: update_profile derives and stores targets only from a weight > 0, a
\* height > 0 and an age > 0 (and a gender): a row with a zero or negative weight,
\* height or age never has targets computed from it.
C13_PositiveInputs ==
    (req.op \in {"register", "update_profile", "recalculate_nutrition_profile"}
         /\ PipelineRan(calls))
        => /\ users[req.email].current_weight_kg[1] > 0
           /\ users[req.email].height_cm[1] > 0
           /\ users[req.email].age[1] > 0
           /\ users[req.email].gender \notin {None, Some(<<>>)}

\* target weights to compare: below, at and above the clamp range of weight * 5
TargetWeights == {40, 82, 120}

\* the unrounded tdee of a row that holds the four required inputs
RowTdee(user) ==
    calculate_tdee(calculate_bmr(FInt(user.current_weight_kg[1]), FInt(user.height_cm[1]),
                                 user.age[1], user.gender[1]),
                   IF user.activity_level \in {None, Some("")} THEN "moderate"
                                                                ELSE user.activity_level[1])

RowGoal(user) == IF user.goal \in {None, Some("")} THEN "maintain" ELSE user.goal[1]

\* C14: calculate_target_calories returns the same value for any two target_weight
\* values, and the targets update_profile stores are the same whether the row's
\* target_weight_kg is unset, zero, equal to the current weight or any other value.
C14_TargetWeightUnused ==
    (req.op \in {"register", "update_profile", "recalculate_nutrition_profile"}
         /\ PipelineRan(calls))
        => /\ \A tw1, tw2 \in TargetWeights :
                  calculate_target_calories(RowTdee(users[req.email]), RowGoal(users[req.email]),
                                            FInt(users[req.email].current_weight_kg[1]),
                                            FInt(tw1))
                      = calculate_target_calories(RowTdee(users[req.email]),
                                                  RowGoal(users[req.email]),
                                                  FInt(users[req.email].current_weight_kg[1]),
                                                  FInt(tw2))
           /\ \A tw \in {None, Some(0), users[req.email].current_weight_kg}
                            \cup {Some(w) : w \in TargetWeights} :
                  Targets(update_user_nutrition_profile(
                              [users[req.email] EXCEPT !.target_weight_kg = tw]).user)
                      = Targets(users[req.email])

\* the service stored targets for a row with the goal "cut", the weight 70 and the
\* target weight 65
C14_Witness ==
    /\ req.op \in {"register", "update_profile", "recalculate_nutrition_profile"}
    /\ PipelineRan(calls)
    /\ users[req.email].goal = Some("cut")
    /\ users[req.email].current_weight_kg = Some(70)
    /\ users[req.email].target_weight_kg = Some(65)
    /\ users[req.email].target_calories # None

\* the targets update_profile stores for a row
ServiceTargets(user) == Targets(update_user_nutrition_profile(user).user)

\* C15: in update_profile an activity level that is None or empty gives the targets
\* of "moderate", a goal that is None or empty gives the targets of "maintain", and
\* a target_weight_kg that is None is replaced by the current weight.
C15_Defaults ==
    (req.op \in {"register", "update_profile", "recalculate_nutrition_profile"}
         /\ PipelineRan(calls))
        => /\ \A a \in {None, Some("")} :
                  ServiceTargets([users[req.email] EXCEPT !.activity_level = a])
                      = ServiceTargets([users[req.email] EXCEPT
                                           !.activity_level = Some("moderate")])
           /\ \A g \in {None, Some("")} :
                  ServiceTargets([users[req.email] EXCEPT !.goal = g])
                      = ServiceTargets([users[req.email] EXCEPT !.goal = Some("maintain")])
           /\ users[req.email].activity_level = None
                  => Targets(users[req.email])
                         = ServiceTargets([users[req.email] EXCEPT
                                              !.activity_level = Some("moderate")])
           /\ users[req.email].goal = None
                  => Targets(users[req.email])
                         = ServiceTargets([users[req.email] EXCEPT !.goal = Some("maintain")])
           /\ TargetWeightArg([users[req.email] EXCEPT !.target_weight_kg = None])
                  = users[req.email].current_weight_kg[1]
           /\ users[req.email].target_weight_kg # None
                  => TargetWeightArg(users[req.email]) = users[req.email].target_weight_kg[1]

\* a user registered with an explicit null activity level and the age 0, then given
\* an age: the service ran on a row without activity level, goal and target weight
C15_Witness ==
    /\ req.op = "update_profile"
    /\ PipelineRan(calls)
    /\ users[req.email].activity_level = None
    /\ users[req.email].goal = None
    /\ users[req.email].target_weight_kg = None
    /\ users[req.email].tdee # None

\* C19: for weight 70 kg, height 175 cm, age 25, gender "male", activity
\* "moderate" and goal "maintain", update_profile stores bmr 1673.8, tdee 2594.3,
\* target_calories 2594.3, target_protein_g 162.1, target_carbs_g 291.9 and
\* target_fats_g 86.5, the macros being those of the unrounded tdee.
C19_EndToEnd ==
    (/\ req.op \in {"register", "update_profile", "recalculate_nutrition_profile"}
     /\ PipelineRan(calls)
     /\ users[req.email].current_weight_kg = Some(70)
     /\ users[req.email].height_cm = Some(175)
     /\ users[req.email].age = Some(25)
     /\ users[req.email].gender = Some(Male)
     /\ users[req.email].activity_level = Some("moderate")
     /\ users[req.email].goal = Some("maintain"))
        => /\ Targets(users[req.email])
                  = [bmr             |-> Some(16738),
                     tdee            |-> Some(25943),
                     target_calories |-> Some(25943),
                     target_macros   |-> [protein_g |-> Some(1621),
                                          carbs_g   |-> Some(2919),
                                          fats_g    |-> Some(865)]]
           /\ calculate_macros(RowTdee(users[req.email]), "maintain")
                  = [protein_g |-> 1621, carbs_g |-> 2919, fats_g |-> 865]
           /\ Round1(RowTdee(users[req.email])) = 25943

\* a user registered with exactly these six inputs, and the service stored the
\* values of the example
C19_Witness ==
    /\ req.op = "register"
    /\ PipelineRan(calls)
    /\ req.body.goal = Given(Some("maintain"))
    /\ users[req.email].goal = Some("maintain")
    /\ users[req.email].activity_level = Some("moderate")
    /\ users[req.email].current_weight_kg = Some(70)
    /\ users[req.email].bmr = Some(16738)
    /\ users[req.email].target_fats_g = Some(865)

\* C20: GET /profile and POST /calculate leave every field of every user row as it
\* was; GET /profile returns the stored targets and calls no calculator function,
\* and POST /calculate returns the values computed from its parameters.
C20_ReadOnly ==
    [][req'.op \in {"get_nutrition_profile", "calculate_nutrition_stats"} =>
          /\ users' = users
          /\ (req'.op = "get_nutrition_profile" /\ resp'.status = 200) =>
                 /\ calls' = <<>>
                 /\ resp'.body.bmr = users[req'.email].bmr
                 /\ resp'.body.tdee = users[req'.email].tdee
                 /\ resp'.body.target_calories = users[req'.email].target_calories
                 /\ resp'.body.target_macros = Targets(users[req'.email]).target_macros
          /\ (req'.op = "calculate_nutrition_stats" /\ resp'.status = 200) =>
                 resp'.body.results =
                     Composed(req'.body.weight_kg, req'.body.height_cm, req'.body.age,
                              req'.body.gender, req'.body.activity_level, req'.body.goal)]_vars

\* GET /profile of a user whose goal was set to "bulk" after the targets were
\* stored: the target_calories returned are the stored ones, still equal to the tdee
C20_Witness ==
    /\ req.op = "get_nutrition_profile"
    /\ resp.status = 200
    /\ users[req.email].goal = Some("bulk")
    /\ users[req.email].tdee # None
    /\ users[req.email].target_calories = users[req.email].tdee
    /\ resp.body.target_calories = users[req.email].target_calories

\* C23: in every state reached by register, PUT /me and POST /recalculate, a row
\* that holds all four required inputs and has targets holds the targets the
\* calculator gives for the weight, height, age, gender, activity level and goal
\* it holds now.
C23_StoredConsistent ==
    \A e \in DOMAIN users :
        (AllRequired(users[e]) /\ ~NoTargets(users[e]))
            => Targets(users[e]) = ExpectedTargets(users[e])

\* a stored user that holds the six values of a query of POST /calculate and the
\* target weight tw, with no targets yet
RowOf(q, tw) ==
    [gender            |-> Some(q.gender),
     age               |-> Some(q.age),
     height_cm         |-> Some(q.height_cm),
     current_weight_kg |-> Some(q.weight_kg),
     target_weight_kg  |-> tw,
     goal              |-> Some(q.goal),
     activity_level    |-> Some(q.activity_level),
     bmr               |-> None,
     tdee              |-> None,
     target_calories   |-> None,
     target_protein_g  |-> None,
     target_carbs_g    |-> None,
     target_fats_g     |-> None]

\* the row holds the six values of the query
SameValues(q, user) ==
    /\ user.current_weight_kg = Some(q.weight_kg)
    /\ user.height_cm = Some(q.height_cm)
    /\ user.age = Some(q.age)
    /\ user.gender = Some(q.gender)
    /\ user.activity_level = Some(q.activity_level)
    /\ user.goal = Some(q.goal)

\* POST /calculate accepts the query
Accepted(q) ==
    Lower(q.gender) \in {Male, Female} /\ q.activity_level \in DOMAIN ACTIVITY_MULTIPLIERS

\* the weight, the height and the age of the query are not zero
NonZero(q) == q.weight_kg # 0 /\ q.height_cm # 0 /\ q.age # 0

\* C24 as stated: the bmr, tdee, target_calories and macros POST /calculate returns
\* for an input it accepts are those the nutrition service persists for a stored
\* user that holds the same six values, whatever the user's target_weight_kg, and
\* those POST /recalculate persists and returns for such a user.
C24_PathsAgree ==
    /\ (req.op = "calculate_nutrition_stats" /\ resp.status = 200) =>
           \A tw \in {None, Some(0)} \cup {Some(w) : w \in TargetWeights} :
               /\ update_user_nutrition_profile(RowOf(req.body, tw)).committed
               /\ ServiceTargets(RowOf(req.body, tw)) = resp.body.results
    /\ (req.op = "recalculate_nutrition_profile" /\ resp.status = 200) =>
           \A q \in CalculateQueries :
               (Accepted(q) /\ SameValues(q, users[req.email]))
                   => /\ Stats(q).results = resp.body
                      /\ Stats(q).results = Targets(users[req.email])

\* C24 as amended: the same for an accepted input whose weight, height and age
\* are not zero.
C24_PathsAgreeNonZero ==
    /\ (req.op = "calculate_nutrition_stats" /\ resp.status = 200 /\ NonZero(req.body)) =>
           \A tw \in {None, Some(0)} \cup {Some(w) : w \in TargetWeights} :
               /\ update_user_nutrition_profile(RowOf(req.body, tw)).committed
               /\ ServiceTargets(RowOf(req.body, tw)) = resp.body.results
    /\ (req.op = "recalculate_nutrition_profile" /\ resp.status = 200) =>
           \A q \in CalculateQueries :
               (Accepted(q) /\ SameValues(q, users[req.email]))
                   => /\ NonZero(q)
                      /\ Stats(q).results = resp.body
                      /\ Stats(q).results = Targets(users[req.email])

\* POST /recalculate answered for a user that holds 70 kg, 175 cm, 25, "Female",
\* "active", "cut" and the target weight 65, with the values POST /calculate
\* returns for that query
C24_Witness ==
    /\ req.op = "recalculate_nutrition_profile"
    /\ resp.status = 200
    /\ users[req.email].target_weight_kg = Some(65)
    /\ \E q \in CalculateQueries :
           /\ Accepted(q)
           /\ q.goal = "cut"
           /\ SameValues(q, users[req.email])
           /\ Stats(q).results = resp.body

\* the targets returned or stored are all strictly positive (numbers of tenths)
AllPositive(t) ==
    /\ t.bmr[1] > 0
    /\ t.tdee[1] > 0
    /\ t.target_calories[1] > 0
    /\ t.target_macros.protein_g[1] > 0
    /\ t.target_macros.carbs_g[1] > 0
    /\ t.target_macros.fats_g[1] > 0

\* C25: for every weight_kg > 0, height_cm > 0 and age > 0, any gender, activity
\* level and goal, the bmr, tdee, target_calories, protein_g, carbs_g and fats_g
\* derived are strictly positive, as returned by POST /calculate and as stored by
\* the nutrition service.
C25_AllPositive ==
    /\ (/\ req.op = "calculate_nutrition_stats"
        /\ resp.status = 200
        /\ req.body.weight_kg > 0
        /\ req.body.height_cm > 0
        /\ req.body.age > 0)
           => AllPositive(resp.body.results)
    /\ (/\ req.op \in {"register", "update_profile", "recalculate_nutrition_profile"}
        /\ PipelineRan(calls)
        /\ users[req.email].current_weight_kg[1] > 0
        /\ users[req.email].height_cm[1] > 0
        /\ users[req.email].age[1] > 0)
           => AllPositive(Targets(users[req.email]))

(***************************************************************************)
(* Properties of calculate_bmr for the two genders, under SpecBmr          *)
(***************************************************************************)
BothBmr == resp.body.male # None /\ resp.body.female # None

\* 10 * weight_kg + 6.25 * height_cm as the code computes it
WeightHeightTerm ==
    FAdd(FMul(Lit_10, Decimal1(req.body.weight_tenths)),
         FMul(Lit_6_25, Decimal1(req.body.height_tenths)))

\* C16 as stated: for all weight_kg, height_cm, age > 0 the difference
\* calculate_bmr(w, h, a, "male") - calculate_bmr(w, h, a, "female") is exactly 166.
C16_DifferenceExact ==
    BothBmr => FSub(resp.body.male[1], resp.body.female[1]) = FInt(166)

\* C16 as amended: the difference is exactly 166 whenever the computed
\* 10 * weight_kg + 6.25 * height_cm is at least 128 and at least 5 * age.
C16_DifferenceExactInRange ==
    (/\ BothBmr
     /\ FCmp(WeightHeightTerm, FInt(128)) >= 0
     /\ FCmp(WeightHeightTerm, FInt(5 * req.body.age)) >= 0)
        => FSub(resp.body.male[1], resp.body.female[1]) = FInt(166)

\* both calls were made for 70.1 kg, 175.3 cm and the age 40, and the results
\* differ by 166
C16_Witness ==
    /\ BothBmr
    /\ req.body.weight_tenths = 701
    /\ req.body.height_tenths = 1753
    /\ req.body.age = 40
    /\ FCmp(WeightHeightTerm, FInt(5 * req.body.age)) >= 0
    /\ FSub(resp.body.male[1], resp.body.female[1]) = FInt(166)

(***************************************************************************)
(* Properties of calculate_bmr for an age of any size, under SpecLongAge   *)
(***************************************************************************)
\* C21: for every weight, height and age > 0 and every gender string,
\* calculate_bmr returns a value and raises no exception.
C21_Total == resp.body # None => ~IsRaised(resp.body[1])

(***************************************************************************)
(* Properties of calculate_tdee as a function of bmr, under SpecTdee       *)
(***************************************************************************)
AllTdee ==
    /\ resp.body.b1 # None
    /\ resp.body.b2 # None
    /\ resp.body.sum # None
    /\ resp.body.scaled # None

\* k * calculate_tdee(b1, level)
ScaledTdee == FMul(FInt(req.body.k), resp.body.b1[1])

\* calculate_tdee(b1, level) + calculate_tdee(b2, level)
SummedTdee == FAdd(resp.body.b1[1], resp.body.b2[1])

\* C22 as stated: calculate_tdee(k*b, level) = k*calculate_tdee(b, level) and
\* calculate_tdee(b1 + b2, level) = calculate_tdee(b1, level) + calculate_tdee(b2, level),
\* and calculate_tdee(100, "sedentary") equals 120.0.
C22_Linear ==
    AllTdee =>
        /\ resp.body.scaled[1] = ScaledTdee
        /\ resp.body.sum[1] = SummedTdee
        /\ (req.body.b1_quarters = 400 /\ req.body.activity_level = "sedentary")
               => resp.body.b1[1] = FInt(120)

\* C22 as amended: the two sides of each equation are equal up to the rounding of
\* the float products and sums (relative difference at most 2^-50), the multiple is
\* equal whenever k is a power of two (2 and 4 here), and
\* calculate_tdee(100, "sedentary") equals 120.0.
C22_LinearRounded ==
    AllTdee =>
        /\ NearlyEqual(resp.body.scaled[1], ScaledTdee)
        /\ NearlyEqual(resp.body.sum[1], SummedTdee)
        /\ req.body.k \in {2, 4} => resp.body.scaled[1] = ScaledTdee
        /\ (req.body.b1_quarters = 400 /\ req.body.activity_level = "sedentary")
               => resp.body.b1[1] = FInt(120)

\* the four calls were made for 1400.5, 1500, k = 3 and "moderate", and both
\* equations miss by a rounding error
C22_Witness ==
    /\ AllTdee
    /\ req.body.b1_quarters = 5602
    /\ req.body.b2_quarters = 6000
    /\ req.body.k = 3
    /\ req.body.activity_level = "moderate"
    /\ resp.body.scaled[1] # ScaledTdee
    /\ resp.body.sum[1] # SummedTdee
    /\ NearlyEqual(resp.body.scaled[1], ScaledTdee)

(***************************************************************************)
(* Properties of calculate_target_calories for the three goals, under      *)
(* SpecGoals                                                               *)
(***************************************************************************)
AllGoals == resp.body.bulk # None /\ resp.body.cut # None /\ resp.body.maintain # None

\* the tdee passed to the three calls
GoalTdee == Decimal1(req.body.tdee_tenths)

\* calories(bulk) - tdee and tdee - calories(cut), as float differences
BulkGap == FSub(resp.body.bulk[1], GoalTdee)

CutGap == FSub(GoalTdee, resp.body.cut[1])

Between(x, lo, hi) == FCmp(x, FInt(lo)) >= 0 /\ FCmp(x, FInt(hi)) <= 0

\* clamp(current_weight * 5, 300, 500), from the weight in tenths
GoalChange == FLit(Clamp(5 * req.body.weight_tenths, 3000, 5000), 10)

\* |gap - clamp(current_weight * 5, 300, 500)| <= 2^(-52) * (tdee + 500)
WithinRounding(gap) ==
    FCmp(FMul(FSub(gap, GoalChange), FInt(Sign(FCmp(gap, GoalChange)))),
         FMul(Pack(1, <<1>>, -52, FALSE), FAdd(GoalTdee, FInt(500)))) <= 0

\* the least of three exponents
LeastExponent(x, y, z) ==
    IF x.e <= y.e /\ x.e <= z.e THEN x.e ELSE IF y.e <= z.e THEN y.e ELSE z.e

\* x + y = z as real numbers, for positive floats: z is the sum, not rounded
ExactSum(x, y, z) ==
    BigCmp(BigAdd(BigShl(x.m, x.e - LeastExponent(x, y, z)),
                  BigShl(y.m, y.e - LeastExponent(x, y, z))),
           BigShl(z.m, z.e - LeastExponent(x, y, z))) = 0

\* neither tdee + surplus nor tdee - deficit was rounded
NeitherRounded ==
    /\ ExactSum(GoalTdee, surplus(Decimal1(req.body.weight_tenths)), resp.body.bulk[1])
    /\ ExactSum(resp.body.cut[1], deficit(Decimal1(req.body.weight_tenths)), GoalTdee)

\* C27 as stated: calories(bulk) - tdee = tdee - calories(cut),
\* calories(cut) < calories(maintain) = tdee < calories(bulk), and each gap is
\* between 300 and 500.
C27_Mirror ==
    AllGoals =>
        /\ BulkGap = CutGap
        /\ FCmp(resp.body.cut[1], resp.body.maintain[1]) < 0
        /\ resp.body.maintain[1] = GoalTdee
        /\ FCmp(GoalTdee, resp.body.bulk[1]) < 0
        /\ Between(BulkGap, 300, 500)
        /\ Between(CutGap, 300, 500)

\* C27 as amended: calories(cut) < calories(maintain) = tdee < calories(bulk), and
\* each gap is clamp(current_weight*5, 300, 500) up to the rounding of the float sum
\* and differences, at most 2^-52 * (tdee + 500); when neither tdee + surplus nor
\* tdee - deficit is rounded, the two gaps are that value and so equal.
C27_MirrorRounded ==
    AllGoals =>
        /\ FCmp(resp.body.cut[1], resp.body.maintain[1]) < 0
        /\ resp.body.maintain[1] = GoalTdee
        /\ FCmp(GoalTdee, resp.body.bulk[1]) < 0
        /\ Between(GoalChange, 300, 500)
        /\ WithinRounding(BulkGap)
        /\ WithinRounding(CutGap)
        /\ NeitherRounded => (BulkGap = GoalChange /\ CutGap = GoalChange)

\* the three calls were made for the tdee 4000.1 and 120.4 kg: the cut gap is 500
\* and the bulk gap is 500 and a rounding error
C27_Witness ==
    /\ AllGoals
    /\ req.body.tdee_tenths = 40001
    /\ req.body.weight_tenths = 1204
    /\ CutGap = FInt(500)
    /\ FCmp(BulkGap, FInt(500)) > 0
    /\ WithinRounding(BulkGap)

(***************************************************************************)
(* Properties of overlapping requests, under SpecConc                      *)
(***************************************************************************)
\* the row a request leaves when no other request runs between its read and its
\* last commit: its handler applied to the row it read
Alone(ses) ==
    IF ses.op = "update_profile"
    THEN (IF AnyRequired(ses.body)
          THEN update_user_nutrition_profile(SetAttrs(ses.loaded, ses.body))
          ELSE NotCalled(SetAttrs(ses.loaded, ses.body))).user
    ELSE update_user_nutrition_profile(ses.loaded).user

AllDone == \A s \in SessionIds : sessions[s].pc = "done"

\* C11: for every interleaving of overlapping PUT /me and POST /recalculate
\* requests, two on the same user included, the targets each request writes are
\* those it produces when run alone on the row it read and its body, and once all
\* are done the targets stored are the calculator's result on the inputs stored.
C11_ConcurrentSafe ==
    /\ \A s \in SessionIds :
           sessions[s].wrote # <<>> => sessions[s].wrote = Targets(Alone(sessions[s]))
    /\ AllDone =>
           \A e \in DOMAIN users :
               HasAllFour(users[e]) => Targets(users[e]) = ExpectedTargets(users[e])

====
